---------------------------- MODULE Spec2Model ----------------------------
(***************************************************************************)
(* A model of pilka.stadiums: the stadium scraper of stadiumdb.com /        *)
(* stadiony.net.  A text is the sequence of its characters, a character a   *)
(* one-character string (one outside ASCII is written "U+<code point>").    *)
(* Python values are tagged records; an operation that may raise returns an *)
(* outcome record [exc, val] whose exc is "none" or the exception's class.  *)
(***************************************************************************)
EXTENDS Integers, Sequences, FiniteSets, TLC

(***************************************************************************)
(* Python values                                                           *)
(***************************************************************************)
None == [t |-> "None"]
Str(s) == [t |-> "str", v |-> s]
\* an int: its sign and the numeral of its magnitude (see below)
PyInt(neg, num) == [t |-> "int", neg |-> neg /\ num # <<0>>, num |-> num]
IntOf(num) == PyInt(FALSE, num)
Tuple(items) == [t |-> "tuple", v |-> items]
Returned(v) == [exc |-> "none", val |-> v]
Raised(e) == [exc |-> e, val |-> None]

(***************************************************************************)
(* Characters.  A printable ASCII character but the grave accent, a tab, a *)
(* line feed, a form feed and a carriage return are themselves; any other  *)
(* is "U+" and its code point in four to six upper-case hexadecimal        *)
(* digits.                                                                 *)
(***************************************************************************)
DigitChars == <<"0", "1", "2", "3", "4", "5", "6", "7", "8", "9">>
\* the ASCII characters from the space (code point 32) to the underscore (95)
\* and from the a (97) to the tilde (126)
Printable ==
  " !\"#$%&'()*+,-./0123456789:;<=>?@ABCDEFGHIJKLMNOPQRSTUVWXYZ[\\]^_abcdefghijklmnopqrstuvwxyz{|}~"
HexChars == "0123456789ABCDEF"

SetMin(S) == CHOOSE i \in S : \A j \in S : i <= j

\* the place of the character in the string
PlaceIn(str, ch) == CHOOSE i \in 1..Len(str) : SubSeq(str, i, i) = ch

RECURSIVE HexVal(_)
HexVal(h) ==
  IF h = "" THEN 0
  ELSE HexVal(SubSeq(h, 1, Len(h) - 1)) * 16 + PlaceIn(HexChars, SubSeq(h, Len(h), Len(h))) - 1

RECURSIVE HexOf(_, _)
HexOf(n, width) ==
  IF n = 0 /\ width <= 0 THEN ""
  ELSE HexOf(n \div 16, width - 1) \o SubSeq(HexChars, (n % 16) + 1, (n % 16) + 1)

\* ord(ch): the code point of the character
ord(ch) ==
  IF Len(ch) > 1 THEN HexVal(SubSeq(ch, 3, Len(ch)))
  ELSE IF ch = "\t" THEN 9
  ELSE IF ch = "\n" THEN 10
  ELSE IF ch = "\f" THEN 12
  ELSE IF ch = "\r" THEN 13
  ELSE LET i == PlaceIn(Printable, ch) IN IF i <= 64 THEN i + 31 ELSE i + 32

\* chr(cp): the character of the code point
chr(cp) ==
  IF cp >= 32 /\ cp <= 95 THEN SubSeq(Printable, cp - 31, cp - 31)
  ELSE IF cp >= 97 /\ cp <= 126 THEN SubSeq(Printable, cp - 32, cp - 32)
  ELSE IF cp = 9 THEN "\t"
  ELSE IF cp = 10 THEN "\n"
  ELSE IF cp = 12 THEN "\f"
  ELSE IF cp = 13 THEN "\r"
  ELSE "U+" \o HexOf(cp, 4)

InRanges(cp, ranges) == \E i \in 1..Len(ranges) : cp >= ranges[i][1] /\ cp <= ranges[i][2]

\* the code points of the whitespace of Unicode (str.isspace, \s)
WhitespaceRanges ==
  <<<<9, 13>>, <<28, 32>>, <<133, 133>>, <<160, 160>>, <<5760, 5760>>,
    <<8192, 8202>>, <<8232, 8233>>, <<8239, 8239>>, <<8287, 8287>>, <<12288, 12288>>>>
\* the code points of the digits zero of Unicode's decimal digits (category
\* Nd); the nine that follow each are its digits one to nine
DecimalZeros ==
  <<48, 1632, 1776, 1984, 2406, 2534, 2662, 2790, 2918, 3046, 3174, 3302,
    3430, 3558, 3664, 3792, 3872, 4160, 4240, 6112, 6160, 6470, 6608, 6784,
    6800, 6992, 7088, 7232, 7248, 42528, 43216, 43264, 43472, 43504, 43600, 44016,
    65296, 66720, 68912, 69734, 69872, 69942, 70096, 70384, 70736, 70864, 71248, 71360,
    71472, 71904, 72016, 72784, 73040, 73120, 92768, 92864, 93008, 120782, 120792, 120802,
    120812, 120822, 123200, 123632, 125264, 130032>>
\* the code points of the digits that are not decimal digits (superscripts,
\* subscripts, circled digits: Numeric_Type=Digit)
OtherDigitRanges ==
  <<<<178, 179>>, <<185, 185>>, <<4969, 4977>>, <<6618, 6618>>, <<8304, 8304>>,
    <<8308, 8313>>, <<8320, 8329>>, <<9312, 9320>>, <<9332, 9340>>, <<9352, 9360>>,
    <<9450, 9450>>, <<9461, 9469>>, <<9471, 9471>>, <<10102, 10110>>, <<10112, 10120>>,
    <<10122, 10130>>, <<68160, 68163>>, <<69216, 69224>>, <<69714, 69722>>, <<127232, 127242>>>>
\* the letters with a lowercase of one character: <<first, last, step, delta>>
\* stands for first, first + step, .. last, each lowered by adding delta
LowerRanges ==
  <<<<65, 90, 1, 32>>, <<192, 214, 1, 32>>, <<216, 222, 1, 32>>, <<256, 302, 2, 1>>,
    <<306, 310, 2, 1>>, <<313, 327, 2, 1>>, <<330, 374, 2, 1>>, <<376, 376, 1, -121>>,
    <<377, 381, 2, 1>>, <<385, 385, 1, 210>>, <<386, 388, 2, 1>>, <<390, 390, 1, 206>>,
    <<391, 391, 1, 1>>, <<393, 394, 1, 205>>, <<395, 395, 1, 1>>, <<398, 398, 1, 79>>,
    <<399, 399, 1, 202>>, <<400, 400, 1, 203>>, <<401, 401, 1, 1>>, <<403, 403, 1, 205>>,
    <<404, 404, 1, 207>>, <<406, 406, 1, 211>>, <<407, 407, 1, 209>>, <<408, 408, 1, 1>>,
    <<412, 412, 1, 211>>, <<413, 413, 1, 213>>, <<415, 415, 1, 214>>, <<416, 420, 2, 1>>,
    <<422, 422, 1, 218>>, <<423, 423, 1, 1>>, <<425, 425, 1, 218>>, <<428, 428, 1, 1>>,
    <<430, 430, 1, 218>>, <<431, 431, 1, 1>>, <<433, 434, 1, 217>>, <<435, 437, 2, 1>>,
    <<439, 439, 1, 219>>, <<440, 440, 1, 1>>, <<444, 444, 1, 1>>, <<452, 452, 1, 2>>,
    <<453, 453, 1, 1>>, <<455, 455, 1, 2>>, <<456, 456, 1, 1>>, <<458, 458, 1, 2>>,
    <<459, 475, 2, 1>>, <<478, 494, 2, 1>>, <<497, 497, 1, 2>>, <<498, 500, 2, 1>>,
    <<502, 502, 1, -97>>, <<503, 503, 1, -56>>, <<504, 542, 2, 1>>, <<544, 544, 1, -130>>,
    <<546, 562, 2, 1>>, <<570, 570, 1, 10795>>, <<571, 571, 1, 1>>, <<573, 573, 1, -163>>,
    <<574, 574, 1, 10792>>, <<577, 577, 1, 1>>, <<579, 579, 1, -195>>, <<580, 580, 1, 69>>,
    <<581, 581, 1, 71>>, <<582, 590, 2, 1>>, <<880, 882, 2, 1>>, <<886, 886, 1, 1>>,
    <<895, 895, 1, 116>>, <<902, 902, 1, 38>>, <<904, 906, 1, 37>>, <<908, 908, 1, 64>>,
    <<910, 911, 1, 63>>, <<913, 929, 1, 32>>, <<931, 939, 1, 32>>, <<975, 975, 1, 8>>,
    <<984, 1006, 2, 1>>, <<1012, 1012, 1, -60>>, <<1015, 1015, 1, 1>>, <<1017, 1017, 1, -7>>,
    <<1018, 1018, 1, 1>>, <<1021, 1023, 1, -130>>, <<1024, 1039, 1, 80>>, <<1040, 1071, 1, 32>>,
    <<1120, 1152, 2, 1>>, <<1162, 1214, 2, 1>>, <<1216, 1216, 1, 15>>, <<1217, 1229, 2, 1>>,
    <<1232, 1326, 2, 1>>, <<1329, 1366, 1, 48>>, <<4256, 4293, 1, 7264>>, <<4295, 4295, 1, 7264>>,
    <<4301, 4301, 1, 7264>>, <<5024, 5103, 1, 38864>>, <<5104, 5109, 1, 8>>, <<7312, 7354, 1, -3008>>,
    <<7357, 7359, 1, -3008>>, <<7680, 7828, 2, 1>>, <<7838, 7838, 1, -7615>>, <<7840, 7934, 2, 1>>,
    <<7944, 7951, 1, -8>>, <<7960, 7965, 1, -8>>, <<7976, 7983, 1, -8>>, <<7992, 7999, 1, -8>>,
    <<8008, 8013, 1, -8>>, <<8025, 8031, 2, -8>>, <<8040, 8047, 1, -8>>, <<8072, 8079, 1, -8>>,
    <<8088, 8095, 1, -8>>, <<8104, 8111, 1, -8>>, <<8120, 8121, 1, -8>>, <<8122, 8123, 1, -74>>,
    <<8124, 8124, 1, -9>>, <<8136, 8139, 1, -86>>, <<8140, 8140, 1, -9>>, <<8152, 8153, 1, -8>>,
    <<8154, 8155, 1, -100>>, <<8168, 8169, 1, -8>>, <<8170, 8171, 1, -112>>, <<8172, 8172, 1, -7>>,
    <<8184, 8185, 1, -128>>, <<8186, 8187, 1, -126>>, <<8188, 8188, 1, -9>>, <<8486, 8486, 1, -7517>>,
    <<8490, 8490, 1, -8383>>, <<8491, 8491, 1, -8262>>, <<8498, 8498, 1, 28>>, <<8544, 8559, 1, 16>>,
    <<8579, 8579, 1, 1>>, <<9398, 9423, 1, 26>>, <<11264, 11311, 1, 48>>, <<11360, 11360, 1, 1>>,
    <<11362, 11362, 1, -10743>>, <<11363, 11363, 1, -3814>>, <<11364, 11364, 1, -10727>>, <<11367, 11371, 2, 1>>,
    <<11373, 11373, 1, -10780>>, <<11374, 11374, 1, -10749>>, <<11375, 11375, 1, -10783>>, <<11376, 11376, 1, -10782>>,
    <<11378, 11378, 1, 1>>, <<11381, 11381, 1, 1>>, <<11390, 11391, 1, -10815>>, <<11392, 11490, 2, 1>>,
    <<11499, 11501, 2, 1>>, <<11506, 11506, 1, 1>>, <<42560, 42604, 2, 1>>, <<42624, 42650, 2, 1>>,
    <<42786, 42798, 2, 1>>, <<42802, 42862, 2, 1>>, <<42873, 42875, 2, 1>>, <<42877, 42877, 1, -35332>>,
    <<42878, 42886, 2, 1>>, <<42891, 42891, 1, 1>>, <<42893, 42893, 1, -42280>>, <<42896, 42898, 2, 1>>,
    <<42902, 42920, 2, 1>>, <<42922, 42922, 1, -42308>>, <<42923, 42923, 1, -42319>>, <<42924, 42924, 1, -42315>>,
    <<42925, 42925, 1, -42305>>, <<42926, 42926, 1, -42308>>, <<42928, 42928, 1, -42258>>, <<42929, 42929, 1, -42282>>,
    <<42930, 42930, 1, -42261>>, <<42931, 42931, 1, 928>>, <<42932, 42946, 2, 1>>, <<42948, 42948, 1, -48>>,
    <<42949, 42949, 1, -42307>>, <<42950, 42950, 1, -35384>>, <<42951, 42953, 2, 1>>, <<42960, 42960, 1, 1>>,
    <<42966, 42968, 2, 1>>, <<42997, 42997, 1, 1>>, <<65313, 65338, 1, 32>>, <<66560, 66599, 1, 40>>,
    <<66736, 66771, 1, 40>>, <<66928, 66938, 1, 39>>, <<66940, 66954, 1, 39>>, <<66956, 66962, 1, 39>>,
    <<66964, 66965, 1, 39>>, <<68736, 68786, 1, 64>>, <<71840, 71871, 1, 32>>, <<93760, 93791, 1, 32>>,
    <<125184, 125217, 1, 34>>>>

(***************************************************************************)
(* str methods (on sequences of characters)                                *)
(***************************************************************************)
IsAsciiDigit(ch) == \E i \in 1..10 : DigitChars[i] = ch

\* str.isdecimal() of one character: what \d matches and int() and float()
\* read as a digit
isdecimal(ch) ==
  IF Len(ch) = 1 THEN IsAsciiDigit(ch)
  ELSE \E i \in 1..Len(DecimalZeros) : ord(ch) - DecimalZeros[i] \in 0..9

\* str.isdigit() of one character
isdigit(ch) == isdecimal(ch) \/ (Len(ch) > 1 /\ InRanges(ord(ch), OtherDigitRanges))

\* the value of a decimal digit
DigitVal(ch) ==
  IF Len(ch) = 1 THEN (CHOOSE i \in 1..10 : DigitChars[i] = ch) - 1
  ELSE ord(ch) - DecimalZeros[CHOOSE i \in 1..Len(DecimalZeros) : ord(ch) - DecimalZeros[i] \in 0..9]

\* str.isspace() of one character
isspace(ch) ==
  IF Len(ch) = 1 THEN ch \in {" ", "\t", "\n", "\r", "\f"}
  ELSE InRanges(ord(ch), WhitespaceRanges)

\* text.find(pat) + 1: the 1-based place of the first occurrence, 0 if none
Find(s, pat) ==
  LET I == {i \in 1..(Len(s) - Len(pat) + 1) : SubSeq(s, i, i + Len(pat) - 1) = pat}
  IN IF I = {} THEN 0 ELSE SetMin(I)

Contains(s, pat) == Find(s, pat) # 0
startswith(s, pat) == Len(pat) <= Len(s) /\ SubSeq(s, 1, Len(pat)) = pat
endswith(s, pat) == Len(pat) <= Len(s) /\ SubSeq(s, Len(s) - Len(pat) + 1, Len(s)) = pat
removeprefix(s, pat) == IF startswith(s, pat) THEN SubSeq(s, Len(pat) + 1, Len(s)) ELSE s
removesuffix(s, pat) == IF endswith(s, pat) THEN SubSeq(s, 1, Len(s) - Len(pat)) ELSE s

\* text.partition(sep): <<before, sep, after>>, or <<text, "", "">>
partition(s, sep) ==
  LET i == Find(s, sep)
  IN IF i = 0 THEN <<s, << >>, << >>>>
     ELSE <<SubSeq(s, 1, i - 1), sep, SubSeq(s, i + Len(sep), Len(s))>>

\* text.split(sep), sep not empty
RECURSIVE split(_, _)
split(s, sep) ==
  LET i == Find(s, sep)
  IN IF i = 0 THEN <<s>>
     ELSE <<SubSeq(s, 1, i - 1)>> \o split(SubSeq(s, i + Len(sep), Len(s)), sep)

\* the number of whitespace characters that start the text, that end it
LeadingSpace(s) ==
  CHOOSE t \in 0..Len(s) :
    (t = Len(s) \/ ~isspace(s[t + 1])) /\ \A u \in 1..t : isspace(s[u])
TrailingSpace(s) ==
  CHOOSE t \in 0..Len(s) :
    (t = Len(s) \/ ~isspace(s[Len(s) - t])) /\ \A u \in 0..(t - 1) : isspace(s[Len(s) - u])
lstrip(s) == SubSeq(s, LeadingSpace(s) + 1, Len(s))
rstrip(s) == SubSeq(s, 1, Len(s) - TrailingSpace(s))
strip(s) == rstrip(lstrip(s))

\* text.split(): the runs of non-whitespace characters
RECURSIVE split_ws(_)
split_ws(s) ==
  LET t == lstrip(s)
      W == {i \in 1..Len(t) : isspace(t[i])}
  IN IF t = << >> THEN << >>
     ELSE IF W = {} THEN <<t>>
     ELSE <<SubSeq(t, 1, SetMin(W) - 1)>> \o split_ws(SubSeq(t, SetMin(W), Len(t)))

RECURSIVE join(_)
join(ss) == IF ss = << >> THEN << >> ELSE Head(ss) \o join(Tail(ss))

\* from_iterable(items, predicate): the first item the predicate holds of, or None;
\* holds[i] is the predicate's value on items[i]
from_iterable(items, holds) ==
  LET I == {i \in 1..Len(items) : holds[i]}
  IN IF I = {} THEN None ELSE Str(items[SetMin(I)])

(***************************************************************************)
(* Numerals: a natural number of any size as the sequence of its decimal   *)
(* digits (0..9), most significant first, without leading zeros; zero is   *)
(* <<0>>.                                                                  *)
(***************************************************************************)
NumNorm(d) ==
  IF d = << >> THEN d
  ELSE LET n == Len(d)
           \* the zeros that start d, its last digit apart
           zeros == CHOOSE t \in 0..(n - 1) :
                      (t = n - 1 \/ d[t + 1] # 0) /\ \A u \in 1..t : d[u] = 0
       IN SubSeq(d, zeros + 1, n)

\* a sequence given by a function, as a tuple of its values
SeqOf(f, n) == SubSeq(f, 1, n)

NumOfChars(s) == NumNorm(SeqOf([i \in 1..Len(s) |-> DigitVal(s[i])], Len(s)))

Zeros(n) == SeqOf([i \in 1..n |-> 0], n)
NumPad(d, n) == Zeros(n - Len(d)) \o d

\* the digits of x + y for numerals of n digits each: place i carries when a
\* place from it on makes ten or more and those between make nine
NumAddAt(x, y, n) ==
  LET Carries(i) == \E j \in i..n : /\ x[j] + y[j] >= 10
                                    /\ \A m \in i..(j - 1) : x[m] + y[m] = 9
      Digit(i) == (x[i] + y[i] + (IF Carries(i + 1) THEN 1 ELSE 0)) % 10
  IN (IF Carries(1) THEN <<1>> ELSE << >>) \o SeqOf([i \in 1..n |-> Digit(i)], n)

NumAddPadded(a, b, n) == NumNorm(NumAddAt(NumPad(a, n), NumPad(b, n), n))

NumAdd(a, b) == NumAddPadded(a, b, IF Len(a) > Len(b) THEN Len(a) ELSE Len(b))

\* a small numeral as an integer of the model
RECURSIVE NumVal(_)
NumVal(d) == IF d = << >> THEN 0 ELSE NumVal(SubSeq(d, 1, Len(d) - 1)) * 10 + d[Len(d)]

NumLess(a, b) ==
  \/ Len(a) < Len(b)
  \/ /\ Len(a) = Len(b)
     /\ \E i \in 1..Len(a) : a[i] < b[i] /\ \A j \in 1..(i - 1) : a[j] = b[j]

(***************************************************************************)
(* Python float: an IEEE-754 double that is not negative, held as its      *)
(* exact decimal expansion [d, k]: the digits d with the last k of them    *)
(* after the point (every double has a finite one), Len(d) > k; or the     *)
(* infinity.                                                               *)
(***************************************************************************)
Inf == [inf |-> TRUE]
Dec(d, k) == [d |-> (IF Len(d) > k THEN d ELSE Zeros(k + 1 - Len(d)) \o d), k |-> k]
DecInt(x) == NumNorm(SubSeq(x.d, 1, Len(x.d) - x.k))
DecFrac(x) == SubSeq(x.d, Len(x.d) - x.k + 1, Len(x.d))
DecIsZero(x) == \A i \in 1..Len(x.d) : x.d[i] = 0

\* without the zeros that end the fraction and those that start the integer part
DecTrim(x) ==
  LET n == Len(x.d)
      units == n - x.k
      ending == CHOOSE t \in 0..x.k :
                  (t = x.k \/ x.d[n - t] # 0) /\ \A u \in 0..(t - 1) : x.d[n - u] = 0
      starting == CHOOSE t \in 0..(units - 1) :
                    (t = units - 1 \/ x.d[t + 1] # 0) /\ \A u \in 1..t : x.d[u] = 0
  IN [d |-> SubSeq(x.d, starting + 1, n - ending), k |-> x.k - ending]

\* 2 * x: a digit doubles and takes the carry of the digit at its right
DecDouble(x) ==
  LET d == x.d
      n == Len(d)
      body == SeqOf([i \in 1..n |-> (2 * d[i] + (IF i < n /\ d[i + 1] >= 5 THEN 1 ELSE 0)) % 10], n)
  IN [d |-> (IF d[1] >= 5 THEN <<1>> ELSE << >>) \o body, k |-> x.k]

\* x / 2: one more digit after the point, then a long division by two
DecHalve(x) ==
  LET d == x.d \o <<0>>
      n == Len(d)
      q == [i \in 1..n |-> (d[i] + (IF i > 1 /\ d[i - 1] % 2 = 1 THEN 10 ELSE 0)) \div 2]
  IN DecTrim([d |-> SeqOf(q, n), k |-> x.k + 1])

\* x * 2^e, by halves of the exponent
RECURSIVE DecScale2(_, _)
DecScale2(x, e) ==
  IF DecIsZero(x) \/ e = 0 THEN x
  ELSE IF e = 1 THEN DecDouble(x)
  ELSE IF e = -1 THEN DecHalve(x)
  ELSE DecScale2(DecScale2(x, e \div 2), e - (e \div 2))

Two36 == <<6, 8, 7, 1, 9, 4, 7, 6, 7, 3, 6>>
Two52 == <<4, 5, 0, 3, 5, 9, 9, 6, 2, 7, 3, 7, 0, 4, 9, 6>>
Two53 == <<9, 0, 0, 7, 1, 9, 9, 2, 5, 4, 7, 4, 0, 9, 9, 2>>
Two69 == <<5, 9, 0, 2, 9, 5, 8, 1, 0, 3, 5, 8, 7, 0, 5, 6, 5, 1, 7, 1, 2>>
\* the exponent of the least positive double, 2^-1074
MinExponent == -1074
\* 2^1024 - 2^970, half way from the greatest double to 2^1024: the least
\* number that rounds to the infinity
OverflowBound ==
  <<1, 7, 9, 7, 6, 9, 3, 1, 3, 4, 8, 6, 2, 3, 1, 5, 8, 0, 7, 9, 3, 7, 2, 8, 9, 7, 1, 4, 0, 5,
    3, 0, 3, 4, 1, 5, 0, 7, 9, 9, 3, 4, 1, 3, 2, 7, 1, 0, 0, 3, 7, 8, 2, 6, 9, 3, 6, 1, 7, 3,
    7, 7, 8, 9, 8, 0, 4, 4, 4, 9, 6, 8, 2, 9, 2, 7, 6, 4, 7, 5, 0, 9, 4, 6, 6, 4, 9, 0, 1, 7,
    9, 7, 7, 5, 8, 7, 2, 0, 7, 0, 9, 6, 3, 3, 0, 2, 8, 6, 4, 1, 6, 6, 9, 2, 8, 8, 7, 9, 1, 0,
    9, 4, 6, 5, 5, 5, 5, 4, 7, 8, 5, 1, 9, 4, 0, 4, 0, 2, 6, 3, 0, 6, 5, 7, 4, 8, 8, 6, 7, 1,
    5, 0, 5, 8, 2, 0, 6, 8, 1, 9, 0, 8, 9, 0, 2, 0, 0, 0, 7, 0, 8, 3, 8, 3, 6, 7, 6, 2, 7, 3,
    8, 5, 4, 8, 4, 5, 8, 1, 7, 7, 1, 1, 5, 3, 1, 7, 6, 4, 4, 7, 5, 7, 3, 0, 2, 7, 0, 0, 6, 9,
    8, 5, 5, 5, 7, 1, 3, 6, 6, 9, 5, 9, 6, 2, 2, 8, 4, 2, 9, 1, 4, 8, 1, 9, 8, 6, 0, 8, 3, 4,
    9, 3, 6, 4, 7, 5, 2, 9, 2, 7, 1, 9, 0, 7, 4, 1, 6, 8, 4, 4, 4, 3, 6, 5, 5, 1, 0, 7, 0, 4,
    3, 4, 2, 7, 1, 1, 5, 5, 9, 6, 9, 9, 5, 0, 8, 0, 9, 3, 0, 4, 2, 8, 8, 0, 1, 7, 7, 9, 0, 4,
    1, 7, 4, 4, 9, 7, 7, 9, 2>>
\* a number below 10^-324 is below 2^-1075 and rounds to zero
UnderflowDecimals == 324

\* whether x < 10^-n: its integer part and first n decimals are zero
BelowPow10(x, n) == x.k >= n /\ \A i \in 1..(Len(x.d) - x.k + n) : x.d[i] = 0

\* <<y, e>> with x = y * 2^e and 2^52 <= y < 2^53, or with y < 2^52 and e the
\* least exponent (x > 0).  x is scaled by 2^256 at once while it is below
\* 10^-62 (so below 2^-204) or has 95 digits (so is 2^309 or more), by 2^16
\* while it is below 2^36 or is 2^69 or more
RECURSIVE DecNormal(_, _)
DecNormal(x, e) ==
  IF e > MinExponent /\ NumLess(DecInt(x), Two52)
    THEN IF BelowPow10(x, 62) /\ e - 256 >= MinExponent
           THEN DecNormal(DecScale2(x, 256), e - 256)
         ELSE IF NumLess(DecInt(x), Two36) /\ e - 16 >= MinExponent
           THEN DecNormal(DecScale2(x, 16), e - 16)
         ELSE DecNormal(DecDouble(x), e - 1)
  ELSE IF ~NumLess(DecInt(x), Two53)
    THEN IF Len(DecInt(x)) >= 95 THEN DecNormal(DecScale2(x, -256), e + 256)
         ELSE IF ~NumLess(DecInt(x), Two69) THEN DecNormal(DecScale2(x, -16), e + 16)
         ELSE DecNormal(DecHalve(x), e + 1)
  ELSE <<x, e>>

\* whether the mantissa m followed by the fraction f rounds up: the fraction
\* is above a half, or is a half and m is odd
RoundsUp(m, f) ==
  /\ f # << >>
  /\ \/ f[1] > 5
     \/ f[1] = 5 /\ \E i \in 2..Len(f) : f[i] # 0
     \/ f[1] = 5 /\ m[Len(m)] % 2 = 1

\* the double m.f * 2^e has as its nearest, m < 2^53
RoundMantissa(m, f, e) ==
  DecTrim(DecScale2(Dec(IF RoundsUp(m, f) THEN NumAdd(m, <<1>>) ELSE m, 0), e))

RoundNormal(ye) == RoundMantissa(DecInt(ye[1]), DecFrac(ye[1]), ye[2])

\* the double nearest to the real number x, ties to the even mantissa
RoundToDouble(x) ==
  IF DecIsZero(x) \/ BelowPow10(x, UnderflowDecimals) THEN Dec(<<0>>, 0)
  ELSE IF ~NumLess(DecInt(x), OverflowBound) THEN Inf
  ELSE IF x.k = 0 /\ NumLess(DecInt(x), Two53) THEN DecTrim(x)
  ELSE RoundNormal(DecNormal(DecTrim(x), 0))

\* float(text) for a text of digits (str.isdigit) and periods, as extract_float
\* hands it over: ValueError unless its digits are decimal digits, at least
\* one, with at most one period
float(s) ==
  LET dots == {i \in 1..Len(s) : s[i] = "."}
      digits == SelectSeq(s, isdecimal)
      k == IF dots = {} THEN 0 ELSE Len(s) - SetMin(dots)
  IN IF Cardinality(dots) > 1 \/ digits = << >> \/ Len(digits) + Cardinality(dots) # Len(s)
       THEN Raised("ValueError")
     ELSE Returned(RoundToDouble(Dec(SeqOf([i \in 1..Len(digits) |-> DigitVal(digits[i])], Len(digits)), k)))

\* x * 10^n in double arithmetic (10^n, n <= 22, is a double)
FloatMulPow10(x, n) == IF x = Inf THEN Inf ELSE RoundToDouble(Dec(x.d \o Zeros(n), x.k))

\* int(x): truncation, OverflowError of the infinity
FloatToInt(x) == IF x = Inf THEN Raised("OverflowError") ELSE Returned(IntOf(DecInt(x)))

(***************************************************************************)
(* int(text)                                                               *)
(***************************************************************************)
\* sys.get_int_max_str_digits(): the most digits int() takes
MAX_STR_DIGITS == 4300

\* decimal digits with single underscores between them
IsIntBody(s) ==
  /\ s # << >>
  /\ \A i \in 1..Len(s) : isdecimal(s[i]) \/ s[i] = "_"
  /\ isdecimal(s[1]) /\ isdecimal(s[Len(s)])
  /\ \A i \in 1..(Len(s) - 1) : ~(s[i] = "_" /\ s[i + 1] = "_")

\* the whitespace int() skips at both ends: that of Unicode but the separators
\* U+001C to U+001F
IsIntSpace(ch) == isspace(ch) /\ ~(Len(ch) > 1 /\ ord(ch) \in 28..31)

IntStrip(s) ==
  LET n == Len(s)
      leading == CHOOSE t \in 0..n :
                   (t = n \/ ~IsIntSpace(s[t + 1])) /\ \A u \in 1..t : IsIntSpace(s[u])
      trailing == CHOOSE t \in 0..n :
                    (t = n \/ ~IsIntSpace(s[n - t])) /\ \A u \in 0..(t - 1) : IsIntSpace(s[n - u])
  IN SubSeq(s, leading + 1, n - trailing)

\* the int of a sign and digits, ValueError of more digits than the limit
IntOfDigits(neg, digits) ==
  IF Len(digits) > MAX_STR_DIGITS THEN Raised("ValueError")
  ELSE Returned(PyInt(neg, NumOfChars(digits)))

\* int(text) past the whitespace: one sign, digits; else ValueError
IntOfStripped(s) ==
  LET signed == s # << >> /\ s[1] \in {"+", "-"}
      body == IF signed THEN Tail(s) ELSE s
  IN IF IsIntBody(body) THEN IntOfDigits(signed /\ s[1] = "-", SelectSeq(body, isdecimal))
     ELSE Raised("ValueError")

int(text) == IntOfStripped(IntStrip(text))

(***************************************************************************)
(* pilka.utils: the primitive extractors                                   *)
(***************************************************************************)
IsFloatChar(ch) == isdigit(ch) \/ ch = "," \/ ch = "."

extract_float(text) ==
  LET num == SelectSeq(text, IsFloatChar)
  IN IF num = << >> THEN Raised("ParsingError")
     ELSE float(SeqOf([i \in 1..Len(num) |-> IF num[i] = "," THEN "." ELSE num[i]], Len(num)))

extract_int(text) ==
  LET num == SelectSeq(text, isdigit)
  IN IF num = << >> THEN Raised("ParsingError") ELSE int(num)

\* a ParsingError is a ValueError: what `except ValueError` catches
IsValueError(exc) == exc \in {"ValueError", "ParsingError"}

(***************************************************************************)
(* pilka.stadiums.data: Cost                                               *)
(***************************************************************************)
\* Cost(amount, currency): amount an int, currency a str or None
Cost(amount, currency) == [t |-> "Cost", amount |-> amount, currency |-> currency]

\* a + b for ints that are not negative
IntAdd(a, b) == IntOf(NumAdd(a.num, b.num))

\* Cost.__add__ on two Costs
Cost_add(self, other) ==
  IF self.currency # other.currency THEN Raised("ValueError")
  ELSE Returned(Cost(IntAdd(self.amount, other.amount), self.currency))

(***************************************************************************)
(* pilka.stadiums: _CostSubParser                                          *)
(***************************************************************************)
MILLION_QUALIFIERS ==
  <<<<"m", "i", "l", "l", "i", "o", "n">>,
    <<"m", "l", "n">>,
    <<"M">>,
    <<"m">>,
    <<"m", "i", "l", "i", "o", "n">>,
    <<"M", "i", "l", "l", "i", "o", "n">>,
    <<"m", "i", "l", "l", "o", "n", "e", "s">>>>
BILLION_QUALIFIERS ==
  <<<<"b", "i", "l", "l", "i", "o", "n">>,
    <<"b", "l", "n">>,
    <<"B">>,
    <<"b">>,
    <<"N">>,
    <<"m", "i", "l", "i", "a", "r", "d">>,
    <<"m", "l", "d">>>>
TRILLION_QUALIFIERS == <<<<"t", "r", "i", "l", "l", "i", "o", "n">>>>
APPROXIMATORS ==
  <<<<"a", "p", "p", "r", "o", "x", ".", " ">>, <<"a", "p", "p", ".", " ">>, <<"o", "k", ".", " ">>>>
COMPOUND_SEPARATORS == <<<<" ", "+", " ">>, <<",", " ">>>>

InSeq(x, xs) == \E i \in 1..Len(xs) : xs[i] = x

\* `currency or None`
OrNone(s) == IF s = << >> THEN None ELSE Str(s)

_prepare_text(text) ==
  LET t1 == strip(partition(text, <<"(">>)[1])
      t2 == strip(partition(t1, <<" ", "/", " ">>)[1])
      approx == from_iterable(APPROXIMATORS,
                              [i \in 1..Len(APPROXIMATORS) |-> startswith(t2, APPROXIMATORS[i])])
  IN IF approx # None THEN removeprefix(t2, approx.v) ELSE t2

\* <<i, qualifier>> of the first token (0-based i) and, for it, the first qualifier
\* that the token equals (strict) or ends with; <<-1, "">> when there is none
_identify_qualifier(tokens, strict) ==
  LET qualifiers == MILLION_QUALIFIERS \o BILLION_QUALIFIERS \o TRILLION_QUALIFIERS
      hit(i, j) == IF strict THEN tokens[i] = qualifiers[j] ELSE endswith(tokens[i], qualifiers[j])
      I == {i \in 1..Len(tokens) : \E j \in 1..Len(qualifiers) : hit(i, j)}
  IN IF I = {} THEN <<-1, << >>>>
     ELSE <<SetMin(I) - 1, qualifiers[SetMin({j \in 1..Len(qualifiers) : hit(SetMin(I), j)})]>>

\* the exponent of ten of the qualifier's multiplier
QualifierExp(qualifier) ==
  IF InSeq(qualifier, MILLION_QUALIFIERS) THEN 6
  ELSE IF InSeq(qualifier, BILLION_QUALIFIERS) THEN 9
  ELSE 12

\* int(base_amount * multiplier) on the outcome of extract_float
Qualified(base_amount, qualifier) ==
  IF base_amount.exc # "none" THEN base_amount
  ELSE FloatToInt(FloatMulPow10(base_amount.val, QualifierExp(qualifier)))

_get_qualified_amount(amount, qualifier) == Qualified(extract_float(amount), qualifier)

\* << >> without a decimal digit (\d), else <<text before the first one, text
\* from it on>>
_split_merged(text) ==
  LET I == {i \in 1..Len(text) : isdecimal(text[i])}
  IN IF I = {} THEN << >>
     ELSE <<SubSeq(text, 1, SetMin(I) - 1), SubSeq(text, SetMin(I), Len(text))>>

\* Cost(amount, currency) of an amount's outcome; with caught, a ValueError is
\* caught and gives None
CostOf(amount, currency, caught) ==
  IF amount.exc = "none" THEN Returned(Cost(amount.val, currency))
  ELSE IF caught /\ IsValueError(amount.exc) THEN Returned(None)
  ELSE amount

_handle_single_token(text_) ==
  LET qualifier == _identify_qualifier(<<text_>>, FALSE)[2]
      text == IF qualifier # << >> THEN SubSeq(text_, 1, Len(text_) - Len(qualifier)) ELSE text_
      result == _split_merged(text)
  IN IF result = << >> THEN Returned(None)
     ELSE IF qualifier # << >>
       THEN CostOf(_get_qualified_amount(result[2], qualifier), OrNone(result[1]), FALSE)
     ELSE CostOf(extract_int(result[2]), OrNone(result[1]), TRUE)

NoDigit(token) == \A i \in 1..Len(token) : ~isdigit(token[i])

_handle_two_tokens_no_qualifier(tokens) ==
  IF NoDigit(tokens[1]) THEN CostOf(extract_int(tokens[2]), OrNone(tokens[1]), TRUE)
  ELSE IF NoDigit(tokens[2]) THEN CostOf(extract_int(tokens[1]), OrNone(tokens[2]), TRUE)
  ELSE Returned(None)

_handle_two_tokens_one_merged(tokens, qualifier_idx, qualifier) ==
  LET merged == IF qualifier_idx = 1 THEN tokens[1] ELSE tokens[2]
      result == _split_merged(merged)
  IN IF result = << >> THEN Returned(None)
     ELSE CostOf(_get_qualified_amount(result[2], qualifier), OrNone(result[1]), FALSE)

_handle_two_tokens(tokens) ==
  LET q == _identify_qualifier(tokens, FALSE)
      idx == q[1]
      found == q[2]
  IN IF idx = -1 THEN _handle_two_tokens_no_qualifier(tokens)
     ELSE IF InSeq(found, tokens) THEN _handle_two_tokens_one_merged(tokens, idx, found)
     ELSE IF idx = 0
       THEN CostOf(_get_qualified_amount(tokens[1], found), OrNone(tokens[2]), TRUE)
     ELSE CostOf(_get_qualified_amount(tokens[2], found), OrNone(tokens[1]), TRUE)

\* int(amount) on the outcome of extract_float
Truncated(amount) ==
  IF amount.exc = "none" THEN FloatToInt(amount.val) ELSE amount

_handle_space_delimited_amount(tokens) ==
  LET currency == tokens[Len(tokens)]
      amount_str == join(SubSeq(tokens, 1, Len(tokens) - 1))
  IN CostOf(Truncated(extract_float(amount_str)), OrNone(currency), TRUE)

_handle_three_tokens(tokens) ==
  LET q == _identify_qualifier(tokens, TRUE)
      idx == q[1]
      found == q[2]
  IN IF idx = 1 THEN CostOf(_get_qualified_amount(tokens[1], found), OrNone(tokens[3]), FALSE)
     ELSE IF idx = 2 THEN CostOf(_get_qualified_amount(tokens[2], found), OrNone(tokens[1]), FALSE)
     ELSE Returned(None)

RECURSIVE _CostSubParser_parse(_)

\* the loop of _handle_compound_cost from segment i on, compound the sum so far
RECURSIVE CompoundLoop(_, _, _)
CompoundLoop(tokens, i, compound) ==
  IF i > Len(tokens) THEN Returned(compound)
  ELSE LET cost == _CostSubParser_parse(tokens[i])
       IN IF cost.exc # "none" THEN cost
          ELSE IF cost.val = None THEN CompoundLoop(tokens, i + 1, compound)
          ELSE IF compound = None THEN CompoundLoop(tokens, i + 1, cost.val)
          ELSE LET sum == Cost_add(compound, cost.val)
               IN CompoundLoop(tokens, i + 1, IF sum.exc = "none" THEN sum.val ELSE compound)

CompoundTokensWhole(text_) == <<text_, << >>>>

\* `tokens` of _handle_compound_cost: the text split at " + " when it has
\* one and at ", " otherwise
CompoundTokens(text_) ==
  LET add == COMPOUND_SEPARATORS[1]
      comma == COMPOUND_SEPARATORS[2]
      sep == IF Contains(text_, add) THEN add ELSE comma
  IN split(text_, sep)

\* `compound` after the cost of one more token
Compounded(compound, cost) ==
  IF cost = None THEN compound
  ELSE IF compound = None THEN cost
  ELSE LET sum == Cost_add(compound, cost)
       IN IF sum.exc = "none" THEN sum.val ELSE compound

_handle_compound_cost(text_) == CompoundLoop(CompoundTokens(text_), 1, None)

\* `any(sep in self._text for sep in self.COMPOUND_SEPARATORS)`
HasCompoundSeparator(text_) ==
  \E i \in 1..Len(COMPOUND_SEPARATORS) : Contains(text_, COMPOUND_SEPARATORS[i])

\* parse() once self._text is prepared and split into its tokens
ParseTokens(text_, tokens) ==
  IF \E i \in 1..Len(COMPOUND_SEPARATORS) : Contains(text_, COMPOUND_SEPARATORS[i])
    THEN _handle_compound_cost(text_)
  ELSE IF Len(tokens) = 1 THEN _handle_single_token(text_)
  ELSE IF Len(tokens) = 2 THEN _handle_two_tokens(tokens)
  ELSE IF Len(tokens) = 3 THEN _handle_three_tokens(tokens)
  ELSE IF Len(tokens) > 3 /\ NoDigit(tokens[Len(tokens)])
    THEN _handle_space_delimited_amount(tokens)
  ELSE Returned(None)

ParsePrepared(text_) == ParseTokens(text_, split_ws(text_))

\* _CostSubParser(text).parse()
_CostSubParser_parse(text) == ParsePrepared(_prepare_text(text))

\* whether parse() gets to its warning of an unexpected cost string: no
\* handler takes the tokens
Unexpected(tokens) ==
  /\ Len(tokens) \notin 1..3
  /\ ~(Len(tokens) > 3 /\ NoDigit(tokens[Len(tokens)]))

RECURSIVE ParseWarnings(_)

\* the warnings logged after the parse of a segment, `rest` of them if the
\* parse returns: none if it raises
AfterParse(token, rest) ==
  IF rest = 0 \/ _CostSubParser_parse(token).exc # "none" THEN 0 ELSE rest

\* the warnings the parses of the segments from segment i on log, up to the
\* one that raises
RECURSIVE CompoundWarnings(_, _)
CompoundWarnings(tokens, i) ==
  IF i > Len(tokens) THEN 0
  ELSE ParseWarnings(tokens[i]) + AfterParse(tokens[i], CompoundWarnings(tokens, i + 1))

PreparedWarnings(text_) ==
  IF HasCompoundSeparator(text_) THEN CompoundWarnings(CompoundTokens(text_), 1)
  ELSE IF Unexpected(split_ws(text_)) THEN 1 ELSE 0

\* the warnings _CostSubParser(text).parse() logs
ParseWarnings(text) == PreparedWarnings(_prepare_text(text))

(***************************************************************************)
(* datetime.date                                                           *)
(***************************************************************************)
INT_MAX == <<2, 1, 4, 7, 4, 8, 3, 6, 4, 7>>
\* the magnitude of INT_MIN
INT_MIN == <<2, 1, 4, 7, 4, 8, 3, 6, 4, 8>>
IntVal(i) == IF i.neg THEN 0 - NumVal(i.num) ELSE NumVal(i.num)

IsLeap(year) == year % 4 = 0 /\ (year % 100 # 0 \/ year % 400 = 0)
DaysInMonth(year, month) ==
  IF month = 2 THEN (IF IsLeap(year) THEN 29 ELSE 28)
  ELSE IF month \in {4, 6, 9, 11} THEN 30 ELSE 31

Date(year, month, day) == [t |-> "date", year |-> year, month |-> month, day |-> day]

\* whether a Python int is not a C int: above INT_MAX or below INT_MIN
BeyondInt(i) == NumLess(IF i.neg THEN INT_MIN ELSE INT_MAX, i.num)

\* date(year, month, day) on Python ints: OverflowError beyond a C int,
\* ValueError outside the calendar
date(year, month, day) ==
  IF \E i \in 1..3 : BeyondInt(<<year, month, day>>[i]) THEN Raised("OverflowError")
  ELSE IF \E i \in 1..3 : <<year, month, day>>[i].neg THEN Raised("ValueError")
  ELSE LET y == IntVal(year)
           m == IntVal(month)
           d == IntVal(day)
       IN IF y \in 1..9999 /\ m \in 1..12 /\ d >= 1 /\ d <= DaysInMonth(y, m)
            THEN Returned(Date(y, m, d))
          ELSE Raised("ValueError")

DateLE(a, b) ==
  \/ a.year < b.year
  \/ a.year = b.year /\ a.month < b.month
  \/ a.year = b.year /\ a.month = b.month /\ a.day <= b.day

(***************************************************************************)
(* pilka.utils: extract_date                                               *)
(***************************************************************************)
\* the separator extract_date detects: "-" before "." before "/"; None if none
DateSep(text) ==
  from_iterable(<<<<"-">>, <<".">>, <<"/">>>>,
                <<Contains(text, <<"-">>), Contains(text, <<".">>), Contains(text, <<"/">>)>>)

DatePartsYearFirst(tokens, month_in_the_middle) ==
  IF Len(tokens) = 3
    THEN IF month_in_the_middle THEN <<tokens[1], tokens[2], tokens[3]>>
         ELSE <<tokens[1], tokens[3], tokens[2]>>
  ELSE IF Len(tokens) = 2 THEN <<tokens[1], tokens[2], <<"1">>>>
  ELSE IF Len(tokens) = 1 THEN <<tokens[1], <<"1">>, <<"1">>>>
  ELSE << >>

\* the year, month and day texts extract_date settles on (1 for a defaulted
\* part), or << >> when the tokens have none of the three shapes
DateParts(tokens, month_in_the_middle) ==
  LET one == <<"1">>
  IN IF Len(tokens) = 3
       THEN LET ymd == IF Len(tokens[1]) = 4 THEN <<tokens[1], tokens[2], tokens[3]>>
                       ELSE IF Len(tokens[3]) = 4 THEN <<tokens[3], tokens[2], tokens[1]>>
                       ELSE << >>
            IN IF ymd = << >> \/ month_in_the_middle THEN ymd ELSE <<ymd[1], ymd[3], ymd[2]>>
     ELSE IF Len(tokens) = 2
       THEN IF Len(tokens[1]) = 4 THEN <<tokens[1], tokens[2], one>>
            ELSE IF Len(tokens[2]) = 4 THEN <<tokens[2], tokens[1], one>>
            ELSE << >>
     ELSE IF Len(tokens) = 1 THEN <<tokens[1], one, one>>
     ELSE << >>

\* the digits of the text and its separators
DateStr(text, sep) ==
  LET keep(c) == isdigit(c) \/ (sep # None /\ <<c>> = sep.v)
  IN SelectSeq(text, keep)

\* `try: year, month, day = int(year), int(month), int(day)` and the date of
\* the three
DateOfInts(year, month, day) ==
  IF year.exc # "none" \/ month.exc # "none" \/ day.exc # "none" THEN Raised("ParsingError")
  ELSE date(year.val, month.val, day.val)

DateOfParts(parts) ==
  IF parts = << >> THEN Raised("ParsingError")
  ELSE DateOfInts(int(parts[1]), int(parts[2]), int(parts[3]))

DateOfStr(datestr, sep, month_in_the_middle) ==
  IF datestr = << >> THEN Raised("ParsingError")
  ELSE IF Len(datestr) # 4 /\ sep = None THEN Raised("ParsingError")
  ELSE DateOfParts(DateParts(IF Len(datestr) = 4 THEN <<datestr>> ELSE split(datestr, sep.v),
                             month_in_the_middle))

DateWithSep(text, sep, month_in_the_middle) ==
  DateOfStr(DateStr(text, sep), sep, month_in_the_middle)

extract_date_flag(text, month_in_the_middle) ==
  DateWithSep(text, DateSep(text), month_in_the_middle)

\* extract_date(text), month_in_the_middle left at its default
extract_date(text) == extract_date_flag(text, TRUE)

(***************************************************************************)
(* pilka.stadiums.data: the structures a detail page is parsed into        *)
(***************************************************************************)
Duration(start, end) == [t |-> "Duration", start |-> start, end |-> end]
Nickname(name, duration) == [t |-> "Nickname", name |-> name, duration |-> duration]
SubCapacity(capacity, designation, note) ==
  [t |-> "SubCapacity", capacity |-> capacity, designation |-> designation, note |-> note]

\* bool(v)
Truthy(v) ==
  IF v.t = "None" THEN FALSE
  ELSE IF v.t = "str" \/ v.t = "tuple" THEN v.v # << >>
  ELSE IF v.t = "int" THEN v.num # <<0>>
  ELSE TRUE

(***************************************************************************)
(* pilka.utils: clean_parenthesized                                        *)
(***************************************************************************)
\* re.sub of "\(.*?\)" (of "\s\(.*?\)" when spaced) by "": every leftmost
\* shortest parenthesized run on one line is cut out
RECURSIVE SubParenthesized(_, _)
SubParenthesized(text, spaced) ==
  LET n == Len(text)
      k == IF spaced THEN 1 ELSE 0
      Closes(i) == {j \in (i + k + 1)..n :
                      /\ text[j] = ")"
                      /\ \A m \in (i + k + 1)..(j - 1) : text[m] # "\n"}
      Opens == {i \in 1..(n - k) :
                  /\ (spaced => isspace(text[i]))
                  /\ text[i + k] = "("
                  /\ Closes(i) # {}}
  IN IF Opens = {} THEN text
     ELSE LET i == SetMin(Opens)
              j == SetMin(Closes(i))
          IN SubSeq(text, 1, i - 1) \o SubParenthesized(SubSeq(text, j + 1, n), spaced)

\* the second substitution of clean_parenthesized
CleanUnspaced(text) ==
  IF Contains(text, <<"(">>) THEN SubParenthesized(text, FALSE) ELSE text

clean_parenthesized(text) ==
  CleanUnspaced(IF Contains(text, <<" ", "(">>) THEN SubParenthesized(text, TRUE) ELSE text)

(***************************************************************************)
(* DetailsScraper: the parsers of the rows' texts                          *)
(***************************************************************************)
normalize(text) ==
  SeqOf([i \in 1..Len(text) |->
           IF text[i] = "U+2013" \/ text[i] = "U+2212" THEN "-"
           ELSE IF text[i] = "U+2019" THEN "'"
           ELSE text[i]], Len(text))

DURATION_SEPARATORS == <<<<"-">>, <<"/">>>>

_trim_multiples(text) == partition(text, <<",", " ">>)[1]

_split_parenthesized(text) ==
  LET parts == partition(text, <<"(">>)
      second == IF endswith(parts[3], <<")">>) THEN SubSeq(parts[3], 1, Len(parts[3]) - 1)
                ELSE parts[3]
  IN <<strip(parts[1]), strip(second)>>

\* `except ParsingError: return None` around an outcome
NoneIfParsingError(outcome) ==
  IF outcome.exc = "ParsingError" THEN Returned(None) ELSE outcome

\* Duration(start, end) of the outcomes of its two arguments, the start's
\* evaluated first
DurationOf(start, end) ==
  IF start.exc # "none" THEN start
  ELSE IF end.exc # "none" THEN end
  ELSE Returned(Duration(start.val, end.val))

\* `try: start, end = int(first), int(second)` and the Duration of the two years
DurationOfYears(start, end) ==
  IF start.exc # "none" \/ end.exc # "none" THEN Returned(None)
  ELSE DurationOf(date(start.val, IntOf(<<1>>), IntOf(<<1>>)),
                  date(end.val, IntOf(<<1>>), IntOf(<<1>>)))

\* _parse_duration from `first, second = text.split(sep)` on
DurationOfParts(parts) ==
  IF Len(parts) # 2 THEN Returned(None)
  ELSE LET first == strip(parts[1])
           stripped == strip(parts[2])
           second == IF Len(stripped) = 2 THEN SubSeq(first, 1, 2) \o stripped ELSE stripped
       IN IF Len(first) = 4 /\ Len(stripped) \in {2, 4}
            THEN DurationOfYears(int(first), int(second))
          ELSE NoneIfParsingError(DurationOf(extract_date(first), extract_date(stripped)))

_parse_duration(text) ==
  LET sep == from_iterable(DURATION_SEPARATORS,
                           [i \in 1..2 |-> Contains(text, DURATION_SEPARATORS[i])])
  IN IF sep = None \/ (sep = Str(<<"/">>) /\ Len(text) \in {7, 10})
       THEN NoneIfParsingError(extract_date(text))
     ELSE DurationOfParts(split(text, sep.v))

\* _parse_sub_capacity_amount: the sum of the ints of the "+"-separated
\* tokens that are not blank, a ValueError turned into a ParsingError
RECURSIVE SumTokens(_, _)
SumTokens(tokens, total) ==
  IF tokens = << >> THEN Returned(total)
  ELSE IF strip(Head(tokens)) = << >> THEN SumTokens(Tail(tokens), total)
  ELSE LET n == extract_int(strip(Head(tokens)))
       IN IF n.exc # "none" THEN n ELSE SumTokens(Tail(tokens), IntAdd(total, n.val))

\* `except ValueError: raise ParsingError` around an outcome
ParsingErrorIfValueError(outcome) ==
  IF IsValueError(outcome.exc) THEN Raised("ParsingError") ELSE outcome

_parse_sub_capacity_amount(text) ==
  ParsingErrorIfValueError(IF Contains(text, <<"+">>)
                             THEN SumTokens(split(text, <<"+">>), IntOf(<<0>>))
                           ELSE extract_int(text))

\* the functions _parse_text_with_details is handed, by name ("" for none)
Apply(func, text) ==
  IF func = "extract_int" THEN extract_int(text)
  ELSE IF func = "extract_date" THEN extract_date(text)
  ELSE IF func = "_parse_duration" THEN _parse_duration(text)
  ELSE IF func = "_parse_sub_capacity_amount" THEN _parse_sub_capacity_amount(text)
  ELSE Returned(Str(text))

\* `return text, details` of the outcomes of the two functions, the text's
\* called first
TextWithDetails(text, details) ==
  IF text.exc # "none" THEN text
  ELSE IF details.exc # "none" THEN details
  ELSE Returned(Tuple(<<text.val, details.val>>))

_parse_text_with_details(text, text_func, details_func) ==
  LET parenthesized == Contains(text, <<"(">>)
      text1 == IF parenthesized THEN _split_parenthesized(text)[1] ELSE text
      details == IF parenthesized THEN Str(_split_parenthesized(text)[2]) ELSE None
  IN NoneIfParsingError(
       TextWithDetails(Apply(text_func, text1),
                       IF details_func # "" /\ Truthy(details)
                         THEN Apply(details_func, details.v)
                       ELSE Returned(details)))

\* `tuple(items) or None`
TupleOrNone(items) == IF items = << >> THEN None ELSE Tuple(items)

\* `text.removesuffix(".") if text else None`
DetailsOrNone(details) ==
  IF Truthy(details) THEN Str(removesuffix(details.v, <<".">>)) ELSE None

\* the loop of _parse_renovations over the tokens, `renovations` so far, and
\* its body once the first token is parsed
RECURSIVE RenovationsLoop(_, _)
RECURSIVE RenovationsBody(_, _, _)
RenovationsLoop(tokens, renovations) ==
  IF tokens = << >> THEN Returned(TupleOrNone(renovations))
  ELSE RenovationsBody(tokens, renovations, _parse_duration(strip(Head(tokens))))

RenovationsBody(tokens, renovations, duration) ==
  IF duration.exc # "none" THEN duration
  ELSE RenovationsLoop(Tail(tokens),
                       IF Truthy(duration.val) THEN Append(renovations, duration.val)
                       ELSE renovations)

_parse_renovations(text) ==
  RenovationsLoop(split(clean_parenthesized(removesuffix(text, <<".">>)), <<",">>), << >>)

_parse_cost(text) == _CostSubParser_parse(text)

\* the loop of _parse_other_names over the tokens, `other_names` so far, and
\* its body once the first token is parsed
RECURSIVE OtherNamesLoop(_, _)
RECURSIVE OtherNamesBody(_, _, _)
OtherNamesLoop(tokens, other_names) ==
  IF tokens = << >> THEN Returned(TupleOrNone(other_names))
  ELSE OtherNamesBody(tokens, other_names,
                      _parse_text_with_details(strip(Head(tokens)), "", "_parse_duration"))

OtherNamesBody(tokens, other_names, result) ==
  IF result.exc # "none" THEN result
  ELSE IF ~Truthy(result.val) THEN OtherNamesLoop(Tail(tokens), other_names)
  ELSE LET name == result.val.v[1]
           duration == result.val.v[2]
       IN OtherNamesLoop(Tail(tokens),
                         Append(other_names,
                                IF Truthy(duration) THEN Nickname(name, duration) ELSE name))

_parse_other_names(text) == OtherNamesLoop(split(text, <<",">>), << >>)

_parse_illumination(text) ==
  IF text = <<"n", "o", "n", "e">> THEN Returned(IntOf(<<0>>))
  ELSE LET n == extract_int(text)
       IN IF n.exc = "ParsingError" THEN Returned(None) ELSE n

\* `return first, second.removesuffix(".") if second else None`, or None, of a
\* parsed <<first, second>>; swapped returns the second first
WithCleanDetails(parsed, swapped) ==
  IF parsed.exc # "none" THEN parsed
  ELSE IF ~Truthy(parsed.val) THEN Returned(None)
  ELSE IF swapped
    THEN Returned(Tuple(<<parsed.val.v[2], DetailsOrNone(parsed.val.v[1])>>))
  ELSE Returned(Tuple(<<parsed.val.v[1], DetailsOrNone(parsed.val.v[2])>>))

_parse_record_attendance(text) ==
  WithCleanDetails(_parse_text_with_details(text, "extract_int", ""), FALSE)

\* the separator of several inaugurations in one text, or None
MultiplesSep(text) ==
  from_iterable(<<<<",", " ">>, <<" ", "/", " ">>>>,
                <<Contains(text, <<",", " ">>), Contains(text, <<" ", "/", " ">>)>>)

\* `return extract_date(text), None` with the exceptions of `caught` turned
\* into a None result
DateAloneOf(d, catchValueError) ==
  IF d.exc = "none" THEN Returned(Tuple(<<d.val, None>>))
  ELSE IF d.exc = "ParsingError" \/ (catchValueError /\ IsValueError(d.exc))
    THEN Returned(None)
  ELSE d

DateAlone(text, catchValueError) == DateAloneOf(extract_date(text), catchValueError)

_parse_inauguration(self_text) ==
  LET text == strip(self_text)
  IN IF Contains(text, <<")">>)
       THEN LET text1 == partition(text, <<")">>)[1] \o <<")">>
                sep == MultiplesSep(text1)
                date_is_first == isdigit(text1[1])
            IN IF sep # None /\ Find(text1, <<"(">>) = 0 THEN Raised("ValueError")
               ELSE IF sep # None /\ Find(text1, sep.v) < Find(text1, <<"(">>)
                 THEN DateAlone(strip(partition(text1, sep.v)[1]), FALSE)
               ELSE WithCleanDetails(
                      _parse_text_with_details(text1,
                                               IF date_is_first THEN "extract_date" ELSE "",
                                               IF date_is_first THEN "" ELSE "extract_date"),
                      ~date_is_first)
     ELSE LET sep == MultiplesSep(text)
              text1 == IF sep # None THEN strip(partition(text, sep.v)[1]) ELSE text
          IN DateAlone(text1, TRUE)

\* `return designer.removesuffix("."), design`, or None, of a parsed designer
DesignerOf(designer) ==
  IF designer.exc # "none" THEN designer
  ELSE IF ~Truthy(designer.val) THEN Returned(None)
  ELSE Returned(Tuple(<<Str(removesuffix(designer.val.v[1].v, <<".">>)), designer.val.v[2]>>))

_parse_designer(text) ==
  IF Contains(text, <<",", " ">>) \/ Contains(text, <<" ", "/", " ">>)
    THEN Returned(Tuple(<<Str(removesuffix(clean_parenthesized(text), <<".">>)), None>>))
  ELSE DesignerOf(_parse_text_with_details(text, "", "_parse_duration"))

\* str.lower() of one character, a text of one character or (of the capital
\* I with a dot above, code point 304) of two
lower(ch) ==
  LET cp == ord(ch)
      I == {i \in 1..Len(LowerRanges) :
              /\ cp >= LowerRanges[i][1] /\ cp <= LowerRanges[i][2]
              /\ (cp - LowerRanges[i][1]) % LowerRanges[i][3] = 0}
  IN IF cp = 304 THEN <<"i", "U+0307">>
     ELSE IF I = {} THEN <<ch>>
     ELSE <<chr(cp + LowerRanges[SetMin(I)][4])>>

_parse_note(text, old_note) ==
  LET note == IF Truthy(old_note) /\ text # << >>
                THEN Str(old_note.v \o <<",", " ">> \o lower(text[1]) \o Tail(text))
              ELSE Str(text)
  IN IF Truthy(note) THEN Str(removesuffix(note.v, <<".">>)) ELSE None

\* text.count("(")
CountOpen(text) == Cardinality({i \in 1..Len(text) : text[i] = "("})

\* the SubCapacity, or None, of a parsed <<capacity, note>> and the designation
SubCapacityOf(sub_capacity, designation) ==
  IF sub_capacity.exc # "none" THEN sub_capacity
  ELSE IF ~Truthy(sub_capacity.val) THEN Returned(None)
  ELSE LET note == sub_capacity.val.v[2]
       IN IF designation = None \/ note = None THEN Raised("TypeError")
          ELSE Returned(SubCapacity(sub_capacity.val.v[1], designation,
                                    IF Contains(designation.v, note.v) THEN None ELSE note))

\* _parse_sub_capacity(row): text the row's text, span the text of the row's
\* span tag or None when the row has none
_parse_sub_capacity(text, span) ==
  LET stripped == IF span = None THEN None ELSE Str(strip(span.v))
      designation == IF Truthy(stripped)
                       THEN Str(SubSeq(stripped.v, 2, Len(stripped.v) - 1))
                     ELSE stripped
      parts == split(text, <<"(">>)
      text1 == IF CountOpen(text) = 2
                 THEN strip(parts[1]) \o <<" ", "(">> \o strip(parts[2])
               ELSE text
  IN SubCapacityOf(_parse_text_with_details(text1, "_parse_sub_capacity_amount", ""),
                   designation)

(***************************************************************************)
(* datetime.date: isoformat and fromisoformat                              *)
(***************************************************************************)
\* the number of bytes of the character in UTF-8
Utf8Len(ch) ==
  IF Len(ch) = 1 \/ ord(ch) < 128 THEN 1
  ELSE IF ord(ch) < 2048 THEN 2
  ELSE IF ord(ch) < 65536 THEN 3
  ELSE 4

\* a surrogate has no UTF-8 encoding
IsSurrogate(ch) == Len(ch) > 1 /\ ord(ch) \in 55296..57343

\* a byte of the encoding of a character outside ASCII
HighByte == "U+0080"

\* the text in UTF-8, a byte of ASCII as its character
RECURSIVE Utf8Bytes(_)
Utf8Bytes(text) ==
  IF text = << >> THEN << >>
  ELSE (IF Utf8Len(Head(text)) = 1 THEN <<Head(text)>>
        ELSE SeqOf([i \in 1..Utf8Len(Head(text)) |-> HighByte], Utf8Len(Head(text))))
       \o Utf8Bytes(Tail(text))

\* n as `width` decimal digits
RECURSIVE ZeroPadded(_, _)
ZeroPadded(n, width) ==
  IF width = 0 THEN << >> ELSE ZeroPadded(n \div 10, width - 1) \o <<DigitChars[(n % 10) + 1]>>

isoformat(d) ==
  ZeroPadded(d.year, 4) \o <<"-">> \o ZeroPadded(d.month, 2) \o <<"-">> \o ZeroPadded(d.day, 2)

\* the number the n characters from place i spell, -1 unless all are digits
ParseDigits(text, i, n) ==
  IF i + n - 1 <= Len(text) /\ \A k \in i..(i + n - 1) : IsAsciiDigit(text[k])
    THEN NumVal(SeqOf([k \in 1..n |-> DigitVal(text[i + k - 1])], n))
  ELSE -1

\* the character at place i, the terminator past the end
CharAt(text, i) == IF i <= Len(text) THEN text[i] ELSE "U+0000"

RECURSIVE DaysBeforeMonth(_, _)
DaysBeforeMonth(year, month) ==
  IF month <= 1 THEN 0 ELSE DaysBeforeMonth(year, month - 1) + DaysInMonth(year, month - 1)

DaysBeforeYear(year) ==
  LET y == year - 1 IN y * 365 + (y \div 4) - (y \div 100) + (y \div 400)

ymd_to_ord(year, month, day) == DaysBeforeYear(year) + DaysBeforeMonth(year, month) + day

\* Monday is 0
weekday(year, month, day) == (ymd_to_ord(year, month, day) + 6) % 7

iso_week1_monday(year) ==
  LET first_day == ymd_to_ord(year, 1, 1)
      first_weekday == (first_day + 6) % 7
  IN IF first_weekday > 3 THEN first_day - first_weekday + 7 ELSE first_day - first_weekday

\* <<year, month, day>> of a positive ordinal
ord_to_ymd(ordinal) ==
  LET n0 == ordinal - 1
      n400 == n0 \div 146097
      r400 == n0 % 146097
      n100 == r400 \div 36524
      r100 == r400 % 36524
      n4 == r100 \div 1461
      r4 == r100 % 1461
      n1 == r4 \div 365
      n == r4 % 365
      year == n400 * 400 + 1 + n100 * 100 + n4 * 4 + n1
      month == (n + 50) \div 32
      preceding == DaysBeforeMonth(year, month)
  IN IF n1 = 4 \/ n100 = 4 THEN <<year - 1, 12, 31>>
     ELSE IF preceding > n
       THEN <<year, month - 1, n - (preceding - DaysInMonth(year, month - 1)) + 1>>
     ELSE <<year, month, n - preceding + 1>>

\* new_date: the date of small integers, ValueError outside the calendar
new_date(year, month, day) ==
  IF year \in 1..9999 /\ month \in 1..12 /\ day >= 1 /\ day <= DaysInMonth(year, month)
    THEN Returned(Date(year, month, day))
  ELSE Raised("ValueError")

\* the date of an ISO week date; a year 0 has no week in the calendar
iso_to_ymd(iso_year, iso_week, iso_day) ==
  IF iso_year = 0 THEN Raised("ValueError")
  ELSE LET first_weekday == weekday(iso_year, 1, 1)
           long_year == first_weekday = 3 \/ (first_weekday = 2 /\ IsLeap(iso_year))
       IN IF iso_week <= 0 \/ iso_week > 53 \/ (iso_week = 53 /\ ~long_year)
            THEN Raised("ValueError")
          ELSE IF iso_day <= 0 \/ iso_day >= 8 THEN Raised("ValueError")
          ELSE LET ymd == ord_to_ymd(iso_week1_monday(iso_year) + (iso_week - 1) * 7 + iso_day - 1)
               IN new_date(ymd[1], ymd[2], ymd[3])

\* date.fromisoformat on the bytes of the text: YYYY-MM-DD, YYYYMMDD,
\* YYYY-Www[-D], YYYYWww[D] in 7, 8 or 10 bytes, what follows the parsed part
\* being ignored
FromIsoBytes(text) ==
  LET len == Len(text)
      year == ParseDigits(text, 1, 4)
      uses_separator == CharAt(text, 5) = "-"
      p == IF uses_separator THEN 6 ELSE 5
  IN IF len \notin {7, 8, 10} \/ year = -1 THEN Raised("ValueError")
     ELSE IF CharAt(text, p) = "W"
       THEN LET iso_week == ParseDigits(text, p + 1, 2)
                q == p + 3
                more == q - 1 < len
                r == IF uses_separator THEN q + 1 ELSE q
                iso_day == IF more THEN ParseDigits(text, r, 1) ELSE 1
            IN IF iso_week = -1 THEN Raised("ValueError")
               ELSE IF more /\ uses_separator /\ CharAt(text, q) # "-" THEN Raised("ValueError")
               ELSE IF iso_day = -1 THEN Raised("ValueError")
               ELSE iso_to_ymd(year, iso_week, iso_day)
     ELSE LET month == ParseDigits(text, p, 2)
              q == p + 2
              r == IF uses_separator THEN q + 1 ELSE q
              day == ParseDigits(text, r, 2)
          IN IF month = -1 THEN Raised("ValueError")
             ELSE IF uses_separator /\ CharAt(text, q) # "-" THEN Raised("ValueError")
             ELSE IF day = -1 THEN Raised("ValueError")
             ELSE new_date(year, month, day)

\* date.fromisoformat(text): ValueError of a text with no UTF-8 encoding and
\* of one of more than ten characters, which is of more than ten bytes
fromisoformat(text) ==
  IF Len(text) > 10 \/ \E i \in 1..Len(text) : IsSurrogate(text[i]) THEN Raised("ValueError")
  ELSE FromIsoBytes(Utf8Bytes(text))

(***************************************************************************)
(* pilka.stadiums.data: the dataclasses and their JSON projection.  An     *)
(* instance is a record of its fields tagged (t) with its class; a dict is *)
(* the function from its keys.                                             *)
(***************************************************************************)
List(items) == [t |-> "list", v |-> items]
Dict(d) == [t |-> "dict", d |-> d]

ClassNames ==
  {"Town", "League", "BasicStadium", "Cost", "Duration", "Nickname", "SubCapacity",
   "Stadium", "Country", "CountryStadiumsData"}

BasicStadiumFields == <<"name", "url", "country", "town", "clubs", "league", "capacity">>

\* dataclasses.fields(cls), by name
fields(cls) ==
  IF cls = "Town" THEN <<"name", "county", "province", "population", "area_ha">>
  ELSE IF cls = "League" THEN <<"name", "tier">>
  ELSE IF cls = "BasicStadium" THEN BasicStadiumFields
  ELSE IF cls = "Cost" THEN <<"amount", "currency">>
  ELSE IF cls = "Duration" THEN <<"start", "end">>
  ELSE IF cls = "Nickname" THEN <<"name", "duration">>
  ELSE IF cls = "SubCapacity" THEN <<"capacity", "designation", "note">>
  ELSE IF cls = "Stadium"
    THEN BasicStadiumFields \o
         <<"capacity_details", "address", "other_names", "floodlights_lux",
           "record_attendance", "record_attendance_details", "cost", "design",
           "construction", "inauguration", "inauguration_details", "renovations",
           "designer", "structural_engineer", "contractor", "investor", "note",
           "track_length_metres", "description">>
  ELSE IF cls = "Country" THEN <<"name", "id", "confederation">>
  ELSE <<"country", "url", "stadiums">>

FieldNames(cls) == {fields(cls)[i] : i \in 1..Len(fields(cls))}

get_properties(cls) ==
  {"json"} \cup
  (IF cls = "BasicStadium" THEN {"tier"}
   ELSE IF cls = "Stadium" THEN {"tier", "is_modern"}
   ELSE IF cls = "Duration" THEN {"delta"}
   ELSE IF cls = "CountryStadiumsData"
     THEN {"avg_capacity", "avg_capacity_tier1", "avg_capacity_tier2", "avg_capacity_tier3"}
   ELSE {})

\* cls(**data)
New(cls, data) == [k \in {"t"} \cup DOMAIN data |-> IF k = "t" THEN cls ELSE data[k]]

is_dataclass(obj) == obj.t \in ClassNames

RECURSIVE _asdict_inner(_)
_asdict_inner(obj) ==
  IF is_dataclass(obj)
    THEN Dict([f \in FieldNames(obj.t) |-> _asdict_inner(obj[f])])
  ELSE IF obj.t = "list" \/ obj.t = "tuple"
    THEN [t |-> obj.t,
          v |-> SeqOf([i \in 1..Len(obj.v) |-> _asdict_inner(obj.v[i])], Len(obj.v))]
  ELSE IF obj.t = "dict"
    THEN Dict([k \in DOMAIN obj.d |-> _asdict_inner(obj.d[k])])
  ELSE obj

asdict(obj) == _asdict_inner(obj)

RECURSIVE tolist(_)
tolist(tpl) ==
  List(SeqOf([i \in 1..Len(tpl.v) |->
                IF tpl.v[i].t = "tuple" THEN tolist(tpl.v[i]) ELSE tpl.v[i]], Len(tpl.v)))

RECURSIVE totuple(_)
totuple(lst) ==
  Tuple(SeqOf([i \in 1..Len(lst.v) |->
                 IF lst.v[i].t = "list" THEN totuple(lst.v[i]) ELSE lst.v[i]], Len(lst.v)))

\* a filter that keeps the items that are None
WithNone(d) == d

\* {k: v for k, v in data.items() if v is not None}
WithoutNone(d) == [k \in {k \in DOMAIN d : d[k] # None} |-> d[k]]

RECURSIVE _serialize(_)
_serialize(data) ==
  IF data.t = "tuple" \/ data.t = "list"
    THEN LET lst == IF data.t = "tuple" THEN tolist(data) ELSE data
         IN List(SeqOf([i \in 1..Len(lst.v) |-> _serialize(lst.v[i])], Len(lst.v)))
  ELSE IF data.t = "dict"
    THEN LET kept == WithoutNone(data.d)
         IN Dict([k \in DOMAIN kept |-> _serialize(kept[k])])
  ELSE IF data.t = "date" THEN Str(isoformat(data))
  ELSE data

\* the json property
json(self) == _serialize(Dict(WithoutNone(asdict(self).d)))

_FIELD_NAMES_TO_CLASS_NAMES ==
  [field \in {"town", "league", "duration", "capacity_details", "other_names", "cost",
              "design", "construction", "renovations", "country", "stadiums"} |->
     IF field = "town" THEN "Town"
     ELSE IF field = "league" THEN "League"
     ELSE IF field = "capacity_details" THEN "SubCapacity"
     ELSE IF field = "other_names" THEN "Nickname"
     ELSE IF field = "cost" THEN "Cost"
     ELSE IF field = "country" THEN "Country"
     ELSE IF field = "stadiums" THEN "Stadium"
     ELSE "Duration"]

\* `try: return date.fromisoformat(obj) except (ValueError, TypeError): return obj`
DateOrSame(d, obj) == IF d.exc = "none" THEN d.val ELSE obj

RECURSIVE _deserialize_dates(_)
_deserialize_dates(obj) ==
  IF obj.t = "list"
    THEN List(SeqOf([i \in 1..Len(obj.v) |-> _deserialize_dates(obj.v[i])], Len(obj.v)))
  ELSE IF obj.t # "str" THEN obj
  ELSE DateOrSame(fromisoformat(obj.v), obj)

_process_dates(data) ==
  IF data.t = "list"
    THEN List(SeqOf([i \in 1..Len(data.v) |-> _deserialize_dates(data.v[i])], Len(data.v)))
  ELSE IF data.t = "dict"
    THEN Dict([k \in DOMAIN data.d |-> _deserialize_dates(data.d[k])])
  ELSE _deserialize_dates(data)

RECURSIVE from_json(_, _)
RECURSIVE _reconstruct_from_json(_, _)
RECURSIVE _deserialize_substructs(_)

\* every class of the module has from_json, so a dict under a listed field
\* name is always rebuilt
_reconstruct_from_json(field, data) ==
  IF data.t # "dict" THEN data
  ELSE IF field \in DOMAIN _FIELD_NAMES_TO_CLASS_NAMES
    THEN from_json(_FIELD_NAMES_TO_CLASS_NAMES[field], data)
  ELSE data

_deserialize_substructs(data) ==
  Dict([k \in DOMAIN data.d |->
          IF data.d[k].t = "list"
            THEN List(SeqOf([i \in 1..Len(data.d[k].v) |->
                               _reconstruct_from_json(k, data.d[k].v[i])], Len(data.d[k].v)))
          ELSE _reconstruct_from_json(k, data.d[k])])

\* cls(**data) with the lists of data made tuples
NewTupled(cls, data) ==
  New(cls, [f \in FieldNames(cls) |->
              IF data.d[f].t = "list" THEN totuple(data.d[f]) ELSE data.d[f]])

from_json(cls, data) ==
  LET known == [k \in {k \in DOMAIN data.d : k \notin get_properties(cls) /\ k \in FieldNames(cls)} |->
                  data.d[k]]
      filled == Dict([f \in FieldNames(cls) |-> IF f \in DOMAIN known THEN known[f] ELSE None])
  IN NewTupled(cls, _deserialize_substructs(_process_dates(filled)))

(***************************************************************************)
(* DetailsScraper.scrape: the rows of the details table.  A row is its     *)
(* header (the th text after strip(), as one string, a character outside   *)
(* ASCII written U+<code point>), the text of its td and the text of the   *)
(* span inside it (None without one).                                      *)
(***************************************************************************)
ROWS ==
  [address |-> {"Addres", "Address", "Adfress"},
   other_names |-> {"Former name", "Nicknames", "Other name", "Other names"},
   illumination |-> {"Floodlights"},
   record_attendance |-> {"Attendance record", "Recod attendance",
       "Record Attendance", "Record attendance", "Record attendance (MLS)",
       "Record attendance (football)", "Record attendence", "Record attnedance",
       "Record audience", "Rekord frekwencji", "Rercord attendance"},
   cost |-> {"Cost", "Kost", "Koszt", "Renovation Cost", "Renovation cost", "cost"},
   design |-> {"Date of project", "Design time", "Project date"},
   construction |-> {"Concstruction", "Construction", "Construction time",
       "Costruction", "Czas budowy"},
   inauguration |-> {"First event", "First game", "First match", "Ianuguration",
       "Iauguration", "Inauguaration", "Inauguartion", "Inauguation", "Inauguracja",
       "Inauguration", "Inauguration (club establishment)", "Inaugurtion",
       "Inuguration", "Opening game"},
   renovations |-> {"Renovation", "Renovations", "Renovatons"},
   designer |-> {"Architect", "Deisgn", "Design", "Designer", "Designs", "Project",
       "Projekt", "project"},
   structural_engineer |-> {"Engineer", "Roof structure", "Structural Engineer",
       "Structural engineer"},
   contractor |-> {"Constractor", "Contracor", "Contractor"},
   investor |-> {"Client", "Investors", "Operator", "Owner", "Ownership", "ownership"},
   note |-> {"Dentro del proyecto", "Hints", "Note", "Notes", "Notice", "Notices",
       "Other", "Others", "Within the project"},
   track_length |-> {}]

ROWS_PL ==
  [address |-> {"Adres"},
   other_names |-> {"Inne nazwy", "Nazwy potoczne"},
   illumination |-> {"Moc oU+015Bwietlenia", "OU+015Bwietlenie"},
   record_attendance |-> {"Rekord frekwencji"},
   cost |-> {"Koszt"},
   design |-> {"Data projektu"},
   construction |-> {"Budowa", "Czas budowa", "Czas budowy", "Rok budowy"},
   inauguration |-> {"Inauguracja", "Inauguration", "Pierwszy mecz"},
   renovations |-> {"Renowacja", "Renowacje"},
   designer |-> {"Projekt"},
   structural_engineer |-> {},
   contractor |-> {"Wykonawca"},
   investor |-> {"WU+0142aU+015Bciciel"},
   note |-> {"Inne", "Uwagi", "W ramach projektu"},
   track_length |-> {"DU+0142ugoU+015BU+0107 toru"}]

RowsOf(scraper) == IF scraper = "DetailsScraperPl" THEN ROWS_PL ELSE ROWS

Row(th, td, span) == [th |-> th, td |-> td, span |-> span]

\* the local variables of scrape() at "fields initialization"
InitialFields ==
  [sub_capacities |-> << >>, address |-> None, other_names |-> None,
   illumination |-> None, cost |-> None, record_attendance |-> None,
   record_attendance_details |-> None, design |-> None, construction |-> None,
   inauguration |-> None, inauguration_details |-> None, renovations |-> None,
   designer |-> None, structural_engineer |-> None, contractor |-> None,
   investor |-> None, note |-> None, track_length |-> None]

\* what one pass of the loop over the rows leaves: the exception that
\* escaped it ("none" if none), the local variables, the warnings logged and
\* whether the header went to AGGREGATED_FIELDS
Passed(f, warnings) == [exc |-> "none", f |-> f, warnings |-> warnings, aggregated |-> FALSE]
Escaped(e, f) == [exc |-> e, f |-> f, warnings |-> 0, aggregated |-> FALSE]
Warn(v) == IF Truthy(v) THEN 0 ELSE 1

\* `field = parsed` after a parser returned or raised, with a warning when
\* the parsed value is falsy
Store(f, field, parsed) ==
  IF parsed.exc # "none" THEN Escaped(parsed.exc, f)
  ELSE Passed([f EXCEPT ![field] = parsed.val], Warn(parsed.val))

\* `field, details = parsed`, or a warning when parsed is None
StoreWithDetails(f, field, details, parsed) ==
  IF parsed.exc # "none" THEN Escaped(parsed.exc, f)
  ELSE IF ~Truthy(parsed.val) THEN Passed([f EXCEPT ![field] = None], 1)
  ELSE Passed([f EXCEPT ![field] = parsed.val.v[1], ![details] = parsed.val.v[2]], 0)

\* the branch of the illumination rows: the warning is for None only
StoreIllumination(f, illumination) ==
  IF illumination.exc # "none" THEN Escaped(illumination.exc, f)
  ELSE Passed([f EXCEPT !.illumination = illumination.val],
              IF illumination.val = None THEN 1 ELSE 0)

\* with the n warnings a parser logged itself
Logged(passed, n) == [passed EXCEPT !.warnings = @ + n]

\* the branch of the cost rows without `if not cost`
CostRowAgain(f, text) == Logged(Store(f, "cost", _parse_cost(text)), ParseWarnings(text))

\* the branch of the cost rows: parse() warns of an unexpected cost string,
\* scrape() of a cost that is not parsed
CostRow(f, text) ==
  IF Truthy(f.cost) THEN Passed(f, 0)
  ELSE Logged(Store(f, "cost", _parse_cost(text)), ParseWarnings(text))

\* `except ValueError: construction = None` around an outcome
NoneIfValueError(outcome) ==
  IF IsValueError(outcome.exc) THEN Returned(None) ELSE outcome

\* the branch of the construction rows
ConstructionRow(f, text) ==
  IF Truthy(f.construction) THEN Passed(f, 0)
  ELSE Store(f, "construction", NoneIfValueError(_parse_duration(_trim_multiples(text))))

\* the branch of the inauguration rows
InaugurationRow(f, text) ==
  IF Truthy(f.inauguration) THEN Passed(f, 0)
  ELSE StoreWithDetails(f, "inauguration", "inauguration_details", _parse_inauguration(text))

\* the branch of the designer rows
StoreDesigner(f, designer) ==
  IF designer.exc # "none" THEN Escaped(designer.exc, f)
  ELSE IF ~Truthy(designer.val) THEN Passed([f EXCEPT !.designer = None], 1)
  ELSE LET new_design == designer.val.v[2]
       IN Passed([f EXCEPT !.designer = designer.val.v[1],
                           !.design = IF Truthy(new_design) /\ ~Truthy(f.design)
                                        THEN new_design ELSE f.design], 0)

\* the branch of the track length rows
StoreTrackLength(f, track_length) ==
  IF track_length.exc # "none" THEN Escaped(track_length.exc, f)
  ELSE Passed([f EXCEPT !.track_length = track_length.val], 0)

\* the branch of the rows without a header
StoreSubCapacity(f, text, sub_capacity) ==
  IF sub_capacity.exc # "none" THEN Escaped(sub_capacity.exc, f)
  ELSE IF Truthy(sub_capacity.val)
    THEN Passed([f EXCEPT !.sub_capacities = Append(@, sub_capacity.val)], 0)
  ELSE Passed(f, IF text # << >> THEN 1 ELSE 0)

\* the body of `for row in table.find_all("tr")` for one row
ScrapeRow(scraper, f, row) ==
  LET header == row.th
      text == normalize(strip(row.td))
      R == RowsOf(scraper)
  IN IF header \in R.address
       THEN Passed([f EXCEPT !.address = Str(removesuffix(text, <<".">>))], 0)
     ELSE IF header \in R.other_names THEN Store(f, "other_names", _parse_other_names(text))
     ELSE IF header \in R.illumination THEN StoreIllumination(f, _parse_illumination(text))
     ELSE IF header \in R.record_attendance
       THEN StoreWithDetails(f, "record_attendance", "record_attendance_details",
                             _parse_record_attendance(text))
     ELSE IF header \in R.cost THEN CostRow(f, text)
     ELSE IF header \in R.design
       THEN Store(f, "design", _parse_duration(_trim_multiples(text)))
     ELSE IF header \in R.construction THEN ConstructionRow(f, text)
     ELSE IF header \in R.inauguration THEN InaugurationRow(f, text)
     ELSE IF header \in R.renovations THEN Store(f, "renovations", _parse_renovations(text))
     ELSE IF header \in R.designer THEN StoreDesigner(f, _parse_designer(text))
     ELSE IF header \in R.structural_engineer
       THEN Passed([f EXCEPT !.structural_engineer = Str(removesuffix(text, <<".">>))], 0)
     ELSE IF header \in R.contractor
       THEN Passed([f EXCEPT !.contractor =
                               Str(removesuffix(clean_parenthesized(text), <<".">>))], 0)
     ELSE IF header \in R.investor
       THEN Passed([f EXCEPT !.investor = Str(removesuffix(text, <<".">>))], 0)
     ELSE IF header \in R.note
       THEN Passed([f EXCEPT !.note = _parse_note(text, f.note)], 0)
     ELSE IF header \in R.track_length THEN StoreTrackLength(f, extract_int(text))
     ELSE IF header = "" THEN StoreSubCapacity(f, text, _parse_sub_capacity(text, row.span))
     ELSE [Passed(f, 0) EXCEPT !.aggregated = TRUE]

\* _parse_description: article is None without the article tag, else the
\* texts of its h2 and p tags in order
_parse_description(article) ==
  IF article = None \/ article.v = << >> THEN None
  ELSE LET Joined[i \in 1..Len(article.v)] ==
             IF i = 1 THEN article.v[1] ELSE Joined[i - 1] \o <<"\n">> \o article.v[i]
       IN Str(normalize(Joined[Len(article.v)]))

\* the Stadium that scrape() returns after the last row
StadiumOf(basic_data, f, article) ==
  LET basic == asdict(basic_data).d
      parsed == [capacity_details |-> TupleOrNone(f.sub_capacities),
                 address |-> f.address,
                 other_names |-> f.other_names,
                 floodlights_lux |-> f.illumination,
                 record_attendance |-> f.record_attendance,
                 record_attendance_details |-> f.record_attendance_details,
                 cost |-> f.cost,
                 design |-> f.design,
                 construction |-> f.construction,
                 inauguration |-> f.inauguration,
                 inauguration_details |-> f.inauguration_details,
                 renovations |-> f.renovations,
                 designer |-> f.designer,
                 structural_engineer |-> f.structural_engineer,
                 contractor |-> f.contractor,
                 investor |-> f.investor,
                 note |-> f.note,
                 track_length_metres |-> f.track_length,
                 description |-> _parse_description(article)]
  IN New("Stadium", [k \in FieldNames("Stadium") |->
                       IF k \in DOMAIN basic THEN basic[k] ELSE parsed[k]])

(***************************************************************************)
(* pilka.utils.scrape: throttling.  A delay is a number of seconds, kept   *)
(* in milliseconds, or a function that provides one.                       *)
(***************************************************************************)
Seconds(ms) == [t |-> "float", ms |-> ms]

MinDelayMs == 800
MaxDelayMs == 1500

\* the function throttling_delay, and the milliseconds a call of it can
\* return: round(random.uniform(0.8, 1.5), 3)
throttling_delay == [t |-> "function", name |-> "throttling_delay"]
ThrottlingDelays == MinDelayMs..MaxDelayMs

\* time.sleep(secs): the exception it raises ("none" if none) and the time slept
sleep(secs) ==
  IF secs.t # "float" THEN [exc |-> "TypeError", slept |-> None]
  ELSE IF secs.ms < 0 THEN [exc |-> "ValueError", slept |-> None]
  ELSE [exc |-> "none", slept |-> secs]

\* a - b for numerals of n digits each, a >= b: place i lends when a place
\* from it on is short and those between are level
NumSubAt(x, y, n) ==
  LET Borrows(i) == \E j \in i..n : /\ x[j] < y[j]
                                    /\ \A m \in i..(j - 1) : x[m] = y[m]
      Digit(i) == (10 + x[i] - y[i] - (IF Borrows(i + 1) THEN 1 ELSE 0)) % 10
  IN SeqOf([i \in 1..n |-> Digit(i)], n)

\* the digits of x with k of them after the point, k >= x.k
DecDigits(x, k) == x.d \o Zeros(k - x.k)
DecLess(x, y) ==
  LET k == IF x.k > y.k THEN x.k ELSE y.k
  IN NumLess(NumNorm(DecDigits(x, k)), NumNorm(DecDigits(y, k)))
DecAdd(x, y) ==
  LET k == IF x.k > y.k THEN x.k ELSE y.k
  IN Dec(NumAdd(NumNorm(DecDigits(x, k)), NumNorm(DecDigits(y, k))), k)
\* x - y, x >= y
DecSub(x, y) ==
  LET k == IF x.k > y.k THEN x.k ELSE y.k
      a == DecDigits(x, k)
      b == DecDigits(y, k)
      n == IF Len(a) > Len(b) THEN Len(a) ELSE Len(b)
  IN Dec(NumNorm(NumSubAt(NumPad(a, n), NumPad(b, n), n)), k)

\* a real number with its sign, and the float arithmetic of throttle() on
\* them: the exact result, rounded to the nearest double
Signed(neg, abs) == [neg |-> neg /\ ~DecIsZero(abs), abs |-> abs]
Minus(x) == Signed(~x.neg, x.abs)
Plus(x, y) ==
  IF x.neg = y.neg THEN Signed(x.neg, DecAdd(x.abs, y.abs))
  ELSE IF DecLess(x.abs, y.abs) THEN Signed(y.neg, DecSub(y.abs, x.abs))
  ELSE Signed(x.neg, DecSub(x.abs, y.abs))
Rounded(x) == Signed(x.neg, RoundToDouble(x.abs))
FloatAdd(x, y) == Rounded(Plus(x, y))
FloatSub(x, y) == Rounded(Plus(x, Minus(y)))
Half(x) == Signed(x.neg, DecHalve(x.abs))

\* the numeral of a natural number of the model
RECURSIVE NumOf(_)
NumOf(n) == IF n < 10 THEN <<n>> ELSE NumOf(n \div 10) \o <<n % 10>>

\* the float of ms milliseconds, in seconds
FloatOfMs(ms) == Rounded(Signed(ms < 0, Dec(NumOf(IF ms < 0 THEN 0 - ms ELSE ms), 3)))

\* round(x, 3) in milliseconds: the thousandth nearest to the float x, ties
\* to the even one
RoundMs(x) ==
  LET d == DecDigits(x.abs, IF x.abs.k > 3 THEN x.abs.k ELSE 3)
      k == IF x.abs.k > 3 THEN x.abs.k ELSE 3
      m == NumNorm(SubSeq(d, 1, Len(d) - k + 3))
      up == RoundsUp(m, SubSeq(d, Len(d) - k + 4, Len(d)))
      ms == NumVal(m) + (IF up THEN 1 ELSE 0)
  IN IF x.neg THEN 0 - ms ELSE ms

\* random.uniform(a, b) with random() at its greatest, 1 - 2^-53:
\* a + (b - a) * random()
UniformTop(a, b) ==
  LET c == FloatSub(b, a)
  IN FloatAdd(a, Rounded(Plus(c, Minus(Signed(c.neg, DecScale2(c.abs, -53))))))

\* the milliseconds round(random.uniform(delay - offset / 2,
\* delay + offset / 2), 3) can give throttle(delay, offset), offset in
\* milliseconds: from random() = 0, which gives the first end, to its
\* greatest; {0} when uniform is not called
Uniform(delay, offset) ==
  IF offset # 0 /\ delay.t = "float"
    THEN LET a == FloatSub(FloatOfMs(delay.ms), Half(FloatOfMs(offset)))
             b == FloatAdd(FloatOfMs(delay.ms), Half(FloatOfMs(offset)))
             first == RoundMs(a)
             last == RoundMs(UniformTop(a, b))
         IN IF first <= last THEN first..last ELSE last..first
  ELSE {0}

\* throttle(delay, offset) when random.uniform, if called, gives `sample`
throttle(delay, offset, sample) ==
  IF offset = 0 THEN sleep(delay)
  ELSE IF delay.t # "float" THEN [exc |-> "TypeError", slept |-> None]
  ELSE sleep(Seconds(sample))

\* what the wrapper of throttled(delay, offset) makes of a call whose wrapped
\* function had the outcome func
wrapper(func, delay, offset, sample) ==
  LET th == throttle(delay, offset, sample)
  IN IF func.exc # "none" THEN [exc |-> func.exc, val |-> None, slept |-> None]
     ELSE IF th.exc # "none" THEN [exc |-> th.exc, val |-> None, slept |-> None]
     ELSE [exc |-> "none", val |-> func.val, slept |-> th.slept]

\* stadiums.utils.scrape (the package before its renaming): throttle(delay)
\* and the wrapper of throttled(delay), which calls a delay that is callable;
\* `sample` is what the call gives
legacy_throttle(delay) == sleep(delay)

\* the milliseconds a call of the throttling_delay of the package before its
\* renaming can return: round(random.uniform(0.4, 1.2), 3)
LegacyMinDelayMs == 400
LegacyMaxDelayMs == 1200
LegacyThrottlingDelays == LegacyMinDelayMs..LegacyMaxDelayMs

LegacySamples(delay) == IF delay.t = "function" THEN LegacyThrottlingDelays ELSE {0}

legacy_wrapper(func, delay, sample) ==
  LET amount == IF delay.t = "function" THEN Seconds(sample) ELSE delay
      th == legacy_throttle(amount)
  IN IF func.exc # "none" THEN [exc |-> func.exc, val |-> None, slept |-> None]
     ELSE IF th.exc # "none" THEN [exc |-> th.exc, val |-> None, slept |-> None]
     ELSE [exc |-> "none", val |-> func.val, slept |-> th.slept]

(***************************************************************************)
(* The run of dump_stadiums: scrape_country_stadiums -> scrape_stadiums -> *)
(* DetailsScraper.scrape (under its throttling wrapper), stadium by        *)
(* stadium and country by country.                                         *)
(***************************************************************************)
VARIABLES
  pc,                \* where the run is
  site,              \* the pages the site serves: "sample" rows, "any" rows, ...
  countries,         \* the countries _parse_countries returned: for each,
                     \* whether it is Poland, the number of stadiums its
                     \* listing has, whether the towns page has their town
                     \* and whether the links of its listing lack the host
  ci,                \* the number of countries taken so far
  data,              \* data["countries"] of dump_stadiums
  scraper,           \* the scraper class scrape_stadiums chose
  basic_stadiums,    \* the listing scrape_basic_data returned
  idx,               \* the number of stadiums of the listing taken so far
  stadiums,          \* the records scrape_stadiums has yielded
  f,                 \* the local variables of scrape()
  nrows,             \* the number of rows scrape() has gone through
  result,            \* the Stadium scrape() returned to the wrapper
  AGGREGATED_FIELDS, \* header -> the urls of the pages it was seen on
  warnings,          \* the warnings logged by the current scrape(), or by
                     \* the parse() applied on its own
  events,            \* the detail fetches and the sleeps of the current batch
  outcomes,          \* how the scrape of each stadium of the batch ended
  seen,              \* the rows the current scrape() has gone through
  extracted,         \* the records scrape() has returned in this run
  ended,             \* how the scraping of each country taken ended
  soup,              \* what fetch_soup returned to the current scrape(), or
                     \* the exception that left it without one: that of
                     \* fetch, or that of the scraper's __init__
  input,             \* the argument of the function applied (SpecCost,
                     \* SpecJson, SpecThrottle)
  output,            \* what the function made of it; for a run, the
                     \* exception that left dump_stadiums
  frames,            \* the compound cost parses that have not returned yet,
                     \* the outermost first (SpecCompound)
  calls              \* the number of recursive parses started so far

vars ==
  <<pc, site, countries, ci, data, scraper, basic_stadiums, idx, stadiums, f, nrows,
    result, AGGREGATED_FIELDS, warnings, events, outcomes, seen, extracted, ended, soup,
    input, output, frames, calls>>

MaxCountries == 2
MaxStadiums == 2
MaxRows == 2

\* the rows a page may hold, by site
SampleRows ==
  <<Row("Koszt", <<"$", "1", "0", " ", "m", "i", "l", "l", "i", "o", "n">>, None),
    Row("Koszt", <<"a", "b", "c", " ", "m", "l", "n", " ", "z", "U+0142">>, None),
    Row("Inauguration", <<"T", "B", "A">>, None)>>

AnyRows ==
  <<Row("Koszt", <<"$", "1", "0", " ", "m", "i", "l", "l", "i", "o", "n">>, None),
    Row("Koszt", <<"U+20AC", "5", " ", "m", "i", "l", "l", "i", "o", "n">>, None),
    Row("Koszt", <<"u", "n", "k", "n", "o", "w", "n">>, None),
    Row("Koszt", <<"a", "b", "c", " ", "m", "l", "n", " ", "z", "U+0142">>, None),
    Row("Czas budowy", <<"2", "0", "1", "0", "U+2013", "2", "0", "1", "2">>, None),
    Row("Czas budowy", <<"1", "9", "9", "8">>, None),
    Row("Czas budowy", <<"0", "0", "0", "0", "-", "0", "0", "0", "1">>, None),
    Row("Inauguration", <<"2", "3", ".", "0", "6", ".", "1", "9", "5", "5", " ",
                          "(", "o", "p", "e", "n", "i", "n", "g", ")">>, None),
    Row("Inauguration", <<"1", "9", "9", "9">>, None),
    Row("Inauguration", <<"T", "B", "A">>, None),
    Row("Inauguration", <<"a", ",", " ", "b", ")">>, None),
    Row("Design time", <<"0", "0", "0", "0", "-", "0", "0", "0", "1">>, None),
    Row("Projekt", <<"J", "o", "h", "n", " ", "S", "m", "i", "t", "h", " ",
                     "(", "2", "0", "0", "3", ")">>, None),
    Row("Renovations", <<"1", "9", "9", "9", ",", " ", "2", "0", "0", "5", "-",
                         "2", "0", "0", "6", " ", "(", "r", "o", "o", "f", ")", ".">>, None),
    Row("Inne nazwy", <<"O", "l", "d", " ", "P", "a", "r", "k", " ", "(", "1", "9", "9", "9",
                        "-", "2", "0", "0", "4", ")", ",", " ", "A", "r", "e", "n", "a">>, None),
    Row("Notes", <<"H", "e", "a", "t", "e", "d", " ", "p", "i", "t", "c", "h", ".">>, None),
    Row("Adres", <<"M", "a", "i", "n", " ", "S", "t", " ", "1", ".">>, None),
    Row("DU+0142ugoU+015BU+0107 toru", <<"b", "r", "a", "k">>, None),
    Row("", <<"5", "0", "0", " ", "(", "V", "I", "P", ")">>, Str(<<"(", "V", "I", "P", ")">>)),
    Row("", <<"5", "0", "0">>, None),
    Row("Capacity", <<"1", "2", " ", "0", "0", "0">>, None)>>

\* rows of a page on which the headers matter: two headers that no scraper
\* knows, one that only DetailsScraper knows, and a row without a header
LabelRows ==
  <<Row("Capacity", <<"1", "2", " ", "0", "0", "0">>, None),
    Row("Pitch", <<"g", "r", "a", "s", "s">>, None),
    Row("Address", <<"M", "a", "i", "n", " ", "S", "t", " ", "1", ".">>, None),
    Row("", <<"5", "0", "0">>, None)>>

\* rows of a page with notes: note rows with a body and without, and a row
\* of another field
NoteRows ==
  <<Row("Notes", <<"H", "e", "a", "t", "e", "d", " ", "p", "i", "t", "c", "h", ".">>, None),
    Row("Notes", <<"U", "n", "d", "e", "r", "-", "s", "o", "i", "l", " ", "h", "e", "a", "t", "i", "n", "g", ".">>, None),
    Row("Note", <<"U", "E", "F", "A", " ", "c", "a", "t", "e", "g", "o", "r", "y", " ", "4">>, None),
    Row("Notes", << >>, None),
    Row("Address", <<"M", "a", "i", "n", " ", "S", "t", " ", "1", ".">>, None)>>

\* rows of a page with sub-capacities: rows without a header that have a
\* designation span and a parenthesized note (the designation or another
\* text), one of the two, or neither, one in the A + B notation, and a row
\* of another field
CapacityRows ==
  <<Row("", <<"5", "0", "0", " ", "(", "V", "I", "P", ")">>, Str(<<"(", "V", "I", "P", ")">>)),
    Row("", <<"3", "0", "0", " ", "+", " ", "2", "0", "0", " ", "(", "a", "w", "a", "y", ")">>, Str(<<"(", "a", "w", "a", "y", ")">>)),
    Row("", <<"5", "0", "0">>, None),
    Row("", <<"1", "2", "0", "0", " ", "(", "s", "t", "a", "n", "d", "i", "n", "g", ")">>, None),
    Row("", <<"5", "0", "0", " ", "(", "s", "e", "a", "t", "s", ")">>, Str(<<"(", "V", "I", "P", ")">>)),
    Row("", <<"8", "0">>, Str(<<"(", "p", "r", "e", "s", "s", ")">>)),
    Row("Address", <<"M", "a", "i", "n", " ", "S", "t", " ", "1", ".">>, None)>>

\* rows of a page with fields given twice: for the design, the renovations,
\* the floodlights, the record attendance and the inauguration a row that
\* parses and one that does not, and a row of other names
FieldRows ==
  <<Row("Design time", <<"1", "9", "9", "0">>, None),
    Row("Design time", <<"a", "b", "c">>, None),
    Row("Renovations", <<"1", "9", "9", "0", ",", " ", "1", "9", "9", "5", "-", "9", "8">>, None),
    Row("Renovations", <<"a", "b", "c">>, None),
    Row("Floodlights", <<"1", "5", "0", "0", " ", "l", "u", "x">>, None),
    Row("Floodlights", <<"n", "/", "a">>, None),
    Row("Record attendance", <<"4", "5", " ", "0", "0", "0", " ", "(", "v", "s", ".", " ", "X", ",", " ", "1", "9", "9", "5", ")">>, None),
    Row("Record attendance", <<"u", "n", "k", "n", "o", "w", "n">>, None),
    Row("Inauguration", <<"1", "2", ".", "0", "5", ".", "1", "9", "8", "0", " ", "(", "v", "s", ".", " ", "X", ")">>, None),
    Row("Inauguration", <<"a", "b", "c">>, None),
    Row("Other names", <<"O", "l", "d", " ", "G", "r", "o", "u", "n", "d">>, None)>>

PageRows ==
  IF site = "any" THEN AnyRows
  ELSE IF site = "labels" THEN LabelRows
  ELSE IF site = "notes" THEN NoteRows
  ELSE IF site = "capacities" THEN CapacityRows
  ELSE IF site = "fields" THEN FieldRows
  ELSE SampleRows

\* the description articles a page may hold (None: no article)
Articles ==
  IF site = "any"
    THEN <<None, Tuple(<<<<"O", "p", "e", "n", "e", "d", " ", "2", "0", "1", "0", "U+2013",
                          "2", "0", "1", "2">>>>)>>
  ELSE <<None>>

\* what fetch_soup can do for a detail page: return None, a page without
\* the stadium-info table or a page with it, or raise the HTTPError of fetch
\* (the server answers 502, 503 or 504)
Fetched == {"None", "no table", "table", "HTTPError"}

\* the warnings fetch may log on the way to that: the None of fetch_soup is
\* that of an answer 4xx or 5xx, which fetch logs as a warning, or that of
\* an answer without text, which nothing logs
FetchWarnings(fetched) == IF fetched = "None" THEN {0, 1} ELSE {0}

\* "stadiony.net", which DetailsScraperPl.__init__ looks for in the url
STADIONY_NET == <<"s", "t", "a", "d", "i", "o", "n", "y", ".", "n", "e", "t">>

\* `"stadiony.net" not in basic_data.url` of DetailsScraperPl.__init__, which
\* raises ValueError then; DetailsScraper.__init__ takes any url
Refused(scraper_, basic_data) ==
  scraper_ = "DetailsScraperPl" /\ ~Contains(basic_data.url.v, STADIONY_NET)

UEFA == Str(<<"U", "E", "F", "A">>)

\* POLAND of pilka.stadiums.data
POLAND ==
  [t |-> "Country", name |-> Str(<<"P", "o", "l", "a", "n", "d">>),
   id |-> Str(<<"p", "o", "l">>), confederation |-> UEFA]

\* country c of the run: POLAND, or a country of the countries page
CountryOf(c, poland) ==
  IF poland THEN POLAND
  ELSE [t |-> "Country", name |-> Str(<<"C", DigitChars[c + 1]>>),
        id |-> Str(<<"c", DigitChars[c + 1]>>), confederation |-> UEFA]

\* URL.format(country.id)
UrlOf(c, poland) ==
  Str(<<"h", "t", "t", "p", ":", "/", "/", "s", "t", "a", "d", "i", "u", "m", "d", "b",
        ".", "c", "o", "m", "/", "s", "t", "a", "d", "i", "u", "m", "s", "/">>
      \o CountryOf(c, poland).id.v)

\* the Town of the towns page that has the name of the listing's town
TownOf(name) ==
  [t |-> "Town", name |-> name,
   county |-> Str(<<"c", "o", "u", "n", "t", "y">>),
   province |-> Str(<<"v", "o", "i", "v", "o", "d">>),
   population |-> IntOf(<<1, 0, 0, 0>>), area_ha |-> IntOf(<<1, 0>>)]

\* the entry scrape_basic_data makes of row i of the listing of country c;
\* its url is the href of the row's link: the listing of Poland is the one of
\* stadiony.net and links to its pages, with the host or without it
\* (relative), and its town is the Town of the towns page when that page has
\* it (towns)
BasicData(c, i, poland, towns, relative) ==
  [t |-> "BasicStadium",
   name |-> Str(<<"S", DigitChars[c + 1], DigitChars[i + 1]>>),
   url |-> Str((IF relative THEN << >>
                ELSE IF poland THEN STADIONY_NET
                ELSE <<"s", "t", "a", "d", "i", "u", "m", "d", "b", ".", "c", "o", "m">>)
               \o <<"/", DigitChars[c + 1], "/", DigitChars[i + 1]>>),
   country |-> CountryOf(c, poland).name,
   town |-> IF poland /\ towns THEN TownOf(Str(<<"T">>)) ELSE Str(<<"T">>),
   clubs |-> Tuple(<<Str(<<"K">>)>>),
   league |-> [t |-> "League", name |-> Str(<<"L">>), tier |-> IntOf(<<1>>)],
   capacity |-> IntOf(<<5, 0, 0, 0>>)]

\* what _parse_countries may return, sorted by id: from minCountries to
\* maxCountries countries with listings of at most maxStadiums stadiums;
\* Poland ('pol') comes after the others ('c1', 'c2', ...); the towns page
\* and the links without the host are told apart for Poland only, the one
\* country they matter to
Listings(minCountries, maxCountries, maxStadiums, polands) ==
  {cs \in UNION {[1..n -> [poland : polands, n : 0..maxStadiums, towns : BOOLEAN,
                           relative : BOOLEAN]] :
                   n \in minCountries..maxCountries} :
     \A i \in DOMAIN cs : /\ cs[i].poland => i = Len(cs)
                          /\ cs[i].towns => cs[i].poland
                          /\ cs[i].relative => cs[i].poland}

\* the countries the run may be asked for, by site; none when the countries
\* page lists none, or when those asked for are all excluded
Requested ==
  {<< >>} \cup
    (IF site = "any" THEN Listings(1, 1, 1, BOOLEAN)
     ELSE IF site = "labels" THEN Listings(2, 2, 1, BOOLEAN)
     ELSE IF site \in {"notes", "capacities", "fields"} THEN Listings(1, 1, 1, {FALSE})
     ELSE Listings(1, MaxCountries, MaxStadiums, {FALSE}))

\* what can leave _parse_countries: the HTTPError of fetch, the countries
\* page that is None (AttributeError), has more lists than headings
\* (IndexError) or a link without href (KeyError), and specifiers that match
\* no country (ValueError)
CountriesErrors == {"HTTPError", "AttributeError", "IndexError", "KeyError", "ValueError"}

\* what can leave scrape_basic_data: the HTTPError of fetch, the listing
\* that is None (AttributeError), has no heading (IndexError), a row that has
\* not four cells (ValueError), a name without a link (AttributeError) or a
\* link without href (KeyError), a capacity without a digit (ParsingError)
\* and, for Poland, the towns page without its table (ScrapingError)
ListingErrors(poland) ==
  {"HTTPError", "AttributeError", "IndexError", "ValueError", "KeyError", "ParsingError"}
    \cup (IF poland THEN {"ScrapingError"} ELSE {})

\* the variables of the step-by-step parse of a compound cost
parsing == <<frames, calls>>

idle == <<input, output, parsing>>

\* nothing is scraped yet
Fresh ==
  /\ ci = 0
  /\ data = << >>
  /\ scraper = "DetailsScraper"
  /\ basic_stadiums = << >>
  /\ idx = 0
  /\ stadiums = << >>
  /\ f = InitialFields
  /\ nrows = 0
  /\ result = None
  /\ AGGREGATED_FIELDS = << >>
  /\ warnings = 0
  /\ events = << >>
  /\ outcomes = << >>
  /\ seen = << >>
  /\ extracted = << >>
  /\ ended = << >>
  /\ soup = "None"
  /\ frames = << >>
  /\ calls = 0

\* dump_stadiums is called and nothing is done yet
Called(pages) ==
  /\ pc = "start"
  /\ site = pages
  /\ countries = << >>
  /\ Fresh
  /\ input = None
  /\ output = None

Init == Called("sample")

\* `countries = _parse_countries(*countries, excluded=excluded)`: it returns
\* the countries to take, or raises and ends dump_stadiums, which has no
\* handler around it
ParseCountries ==
  /\ pc = "start"
  /\ \/ /\ countries' \in Requested
        /\ pc' = "dump"
        /\ UNCHANGED output
     \/ /\ \E e \in CountriesErrors : output' = Raised(e)
        /\ pc' = "raised"
        /\ UNCHANGED countries
  /\ UNCHANGED <<soup, site, ci, data, scraper, basic_stadiums, idx, stadiums, f, nrows,
                 result, AGGREGATED_FIELDS, warnings, events, outcomes, seen, extracted,
                 ended, input, parsing>>

\* an exception e leaves scraper(stadium).scrape(): scrape_stadiums logs a
\* ScrapingError and goes on; anything else leaves scrape_stadiums and
\* scrape_country_stadiums too, and dump_stadiums logs it and goes on with
\* the next country
Leaves(e) ==
  /\ outcomes' = Append(outcomes, e)
  /\ IF e = "ScrapingError"
       THEN pc' = "batch" /\ UNCHANGED ended
     ELSE pc' = "dump" /\ ended' = Append(ended, e)
  /\ UNCHANGED <<data, stadiums>>

\* dump_stadiums takes the next country: scrape_country_stadiums calls
\* scrape_stadiums, which picks the scraper and gets the listing; an
\* exception that leaves scrape_basic_data leaves scrape_stadiums and
\* scrape_country_stadiums too, and dump_stadiums logs it and goes on with the
\* next country
StartCountry ==
  /\ pc = "dump"
  /\ ci < Len(countries)
  /\ ci' = ci + 1
  /\ scraper' = IF countries[ci + 1].poland THEN "DetailsScraperPl" ELSE "DetailsScraper"
  /\ \/ /\ basic_stadiums' = SeqOf([i \in 1..countries[ci + 1].n |->
                                      BasicData(ci + 1, i, countries[ci + 1].poland,
                                                countries[ci + 1].towns,
                                                countries[ci + 1].relative)],
                                   countries[ci + 1].n)
        /\ idx' = 0
        /\ stadiums' = << >>
        /\ outcomes' = << >>
        /\ events' = << >>
        /\ pc' = "batch"
        /\ UNCHANGED ended
     \/ /\ \E e \in ListingErrors(countries[ci + 1].poland) : ended' = Append(ended, e)
        /\ pc' = "dump"
        /\ UNCHANGED <<basic_stadiums, idx, stadiums, outcomes, events>>
  /\ UNCHANGED <<soup, site, countries, data, f, nrows, result, AGGREGATED_FIELDS, warnings,
                 seen, extracted, idle>>

\* scrape_stadiums takes the next stadium, `scraper(stadium).scrape()`: the
\* scraper is made, which DetailsScraperPl.__init__ refuses with ValueError
\* for a url without "stadiony.net", before any page is asked for; then
\* scrape() starts: it fetches the page, fetch logging a warning for an
\* answer 4xx or 5xx, and looks for the table
Fetch ==
  /\ pc = "batch"
  /\ idx < Len(basic_stadiums)
  /\ idx' = idx + 1
  /\ f' = InitialFields
  /\ nrows' = 0
  /\ seen' = << >>
  /\ result' = None
  /\ IF Refused(scraper, basic_stadiums[idx + 1])
       THEN /\ soup' = "ValueError"
            /\ warnings' = 0
            /\ Leaves("ValueError")
            /\ UNCHANGED events
     ELSE /\ events' = Append(events, "fetch")
          /\ \E fetched \in Fetched :
               /\ soup' = fetched
               /\ \E logged \in FetchWarnings(fetched) : warnings' = logged
               /\ IF fetched = "HTTPError" THEN Leaves("HTTPError")
                  ELSE IF fetched = "None" THEN Leaves("AttributeError")
                  ELSE IF fetched = "no table" THEN Leaves("ScrapingError")
                  ELSE pc' = "rows" /\ UNCHANGED <<data, stadiums, outcomes, ended>>
  /\ UNCHANGED <<site, countries, ci, scraper, basic_stadiums, AGGREGATED_FIELDS,
                 extracted, idle>>

AggregateAnew(header, url) ==
  [h \in DOMAIN AGGREGATED_FIELDS \cup {header} |->
     IF h = header THEN <<url>> ELSE AGGREGATED_FIELDS[h]]

\* AGGREGATED_FIELDS[header].append(url)
Aggregate(header, url) ==
  [h \in DOMAIN AGGREGATED_FIELDS \cup {header} |->
     IF h = header
       THEN (IF h \in DOMAIN AGGREGATED_FIELDS THEN AGGREGATED_FIELDS[h] ELSE << >>) \o <<url>>
     ELSE AGGREGATED_FIELDS[h]]

\* scrape() goes through the next row of the table
ParseRow ==
  /\ pc = "rows"
  /\ nrows < MaxRows
  /\ \E i \in 1..Len(PageRows) :
       \E passed \in {ScrapeRow(scraper, f, PageRows[i])} :
         /\ seen' = Append(seen, PageRows[i])
         /\ f' = passed.f
         /\ warnings' = warnings + passed.warnings
         /\ AGGREGATED_FIELDS' = IF passed.aggregated
                                   THEN Aggregate(PageRows[i].th, basic_stadiums[idx].url)
                                 ELSE AGGREGATED_FIELDS
         /\ IF passed.exc # "none" THEN Leaves(passed.exc)
            ELSE pc' = "rows" /\ UNCHANGED <<data, stadiums, outcomes, ended>>
  /\ nrows' = nrows + 1
  /\ UNCHANGED <<soup, site, countries, ci, scraper, basic_stadiums, idx, result, events,
                 extracted, idle>>

\* the table has no more rows: scrape() parses the description and returns
\* the Stadium to the wrapper
Return ==
  /\ pc = "rows"
  /\ \E i \in 1..Len(Articles) :
       result' = StadiumOf(basic_stadiums[idx], f, Articles[i])
  /\ extracted' = Append(extracted, result')
  /\ pc' = "wrapper"
  /\ UNCHANGED <<soup, site, countries, ci, data, scraper, basic_stadiums, idx, stadiums, f, nrows,
                 AGGREGATED_FIELDS, warnings, events, outcomes, seen, ended, idle>>

\* the wrapper of throttled(throttling_delay) throttles and returns the
\* Stadium, which scrape_stadiums yields
Throttle ==
  /\ pc = "wrapper"
  /\ \E sample \in Uniform(throttling_delay, 0) :
       LET th == throttle(throttling_delay, 0, sample)
       IN IF th.exc # "none" THEN Leaves(th.exc) /\ UNCHANGED events
          ELSE /\ events' = Append(events, "sleep")
               /\ stadiums' = Append(stadiums, result)
               /\ outcomes' = Append(outcomes, "Stadium")
               /\ pc' = "batch"
               /\ UNCHANGED <<data, ended>>
  /\ UNCHANGED <<soup, site, countries, ci, scraper, basic_stadiums, idx, f, nrows, result,
                 AGGREGATED_FIELDS, warnings, seen, extracted, idle>>

\* the listing is exhausted: scrape_country_stadiums returns the country's
\* data, or None with nothing scraped, and dump_stadiums appends its json
EndCountry ==
  /\ pc = "batch"
  /\ idx = Len(basic_stadiums)
  /\ IF stadiums = << >>
       THEN ended' = Append(ended, "None") /\ UNCHANGED data
     ELSE /\ ended' = Append(ended, "CountryStadiumsData")
          /\ data' = Append(data, json([t |-> "CountryStadiumsData",
                                        country |-> CountryOf(ci, countries[ci].poland),
                                        url |-> UrlOf(ci, countries[ci].poland),
                                        stadiums |-> Tuple(stadiums)]))
  /\ pc' = "dump"
  /\ UNCHANGED <<soup, site, countries, ci, scraper, basic_stadiums, idx, stadiums, f, nrows,
                 result, AGGREGATED_FIELDS, warnings, events, outcomes, seen, extracted, idle>>

\* no country is left: dump_stadiums writes the file
Dump ==
  /\ pc = "dump"
  /\ ci = Len(countries)
  /\ pc' = "done"
  /\ UNCHANGED <<soup, site, countries, ci, data, scraper, basic_stadiums, idx, stadiums, f, nrows,
                 result, AGGREGATED_FIELDS, warnings, events, outcomes, seen, extracted,
                 ended, idle>>

Next ==
  \/ ParseCountries
  \/ StartCountry
  \/ Fetch
  \/ ParseRow
  \/ Return
  \/ Throttle
  \/ EndCountry
  \/ Dump

Spec == Init /\ [][Next]_vars

(***************************************************************************)
(* One scrape of a page of any rows: a listing of one stadium, of Poland   *)
(* or not.                                                                 *)
(***************************************************************************)
InitScrape == Called("any")

SpecScrape == InitScrape /\ [][Next]_vars

(***************************************************************************)
(* A batch over pages on which the headers matter: listings of at most one *)
(* stadium of two countries, of Poland or not.                             *)
(***************************************************************************)
InitLabels == Called("labels")

SpecLabels == InitLabels /\ [][Next]_vars

(***************************************************************************)
(* One scrape of a page with notes.                                        *)
(***************************************************************************)
InitNotes == Called("notes")

SpecNotes == InitNotes /\ [][Next]_vars

(***************************************************************************)
(* One scrape of a page with sub-capacities.                               *)
(***************************************************************************)
InitCapacities == Called("capacities")

SpecCapacities == InitCapacities /\ [][Next]_vars

(***************************************************************************)
(* One scrape of a page with fields given twice.                           *)
(***************************************************************************)
InitFields == Called("fields")

SpecFields == InitFields /\ [][Next]_vars

(***************************************************************************)
(* The cost parser on its own: parse() applied to a cost text.             *)
(***************************************************************************)
MaxSegments == 3

\* the variables of the run, which the functions applied on their own leave alone
unlogged ==
  <<site, countries, ci, data, scraper, basic_stadiums, idx, stadiums, f, nrows, result,
    AGGREGATED_FIELDS, events, outcomes, seen, extracted, ended, soup>>
scraping == <<unlogged, warnings>>

\* the segments a cost text is made of: two costs in one currency, one in
\* another, one that parses to nothing and one whose amount has no digit
CostSegments ==
  <<<<"$", "1", "0", " ", "m", "i", "l", "l", "i", "o", "n">>,
    <<"$", "5", " ", "m", "i", "l", "l", "i", "o", "n">>,
    <<"U+20AC", "5", " ", "m", "i", "l", "l", "i", "o", "n">>,
    <<"u", "n", "k", "n", "o", "w", "n">>,
    <<"a", "b", "c", " ", "m", "l", "n", " ", "z", "U+0142">>,
    <<"U+0663", "U+00A0", "m", "l", "n", "U+2003", "z", "U+0142">>>>

\* the texts of n segments with a compound separator between them
RECURSIVE CostTexts(_)
CostTexts(n) ==
  IF n = 1 THEN {CostSegments[i] : i \in 1..Len(CostSegments)}
  ELSE {text \o COMPOUND_SEPARATORS[s] \o CostSegments[i] :
          text \in CostTexts(n - 1), s \in 1..Len(COMPOUND_SEPARATORS),
          i \in 1..Len(CostSegments)}

InitCost ==
  /\ pc = "cost"
  /\ site = "sample"
  /\ countries = << >>
  /\ Fresh
  /\ input \in UNION {CostTexts(n) : n \in 1..MaxSegments}
  /\ output = None

\* _CostSubParser(text).parse()
ParseCost ==
  /\ pc = "cost"
  /\ output' = _CostSubParser_parse(input)
  /\ warnings' = ParseWarnings(input)
  /\ pc' = "parsed"
  /\ UNCHANGED <<input, unlogged, parsing>>

NextCost == ParseCost

SpecCost == InitCost /\ [][NextCost]_vars

(***************************************************************************)
(* The JSON projection on its own: the json property of a record and       *)
(* from_json on what it gave.                                              *)
(***************************************************************************)
\* what the fields of a record may hold
JsonNotes == <<None, Str(<<"H", "e", "a", "t", "e", "d", " ", "p", "i", "t", "c", "h">>), Str(<<"2", "0", "0", "6", "-", "0", "4", "-", "0", "1">>)>>
JsonCosts ==
  <<None, Cost(IntOf(<<1, 0, 0, 0, 0, 0, 0, 0>>), Str(<<"$">>)), Cost(IntOf(<<4, 5>>), None)>>
JsonConstructions ==
  <<None, Date(1998, 1, 1), Duration(Date(2010, 1, 1), Date(2012, 1, 1))>>
JsonOtherNames ==
  <<None,
    Tuple(<<Str(<<"A", "r", "e", "n", "a">>),
            Nickname(Str(<<"O", "l", "d", " ", "P", "a", "r", "k">>), Duration(Date(1999, 1, 1), Date(2004, 1, 1)))>>)>>

\* the Stadium scrape() assembles from the listing's entry and the fields
\* chosen, for `assembled`; else the same Stadium with the League of the
\* entry as its league
JsonStadium(choice, assembled) ==
  LET parsed == [InitialFields EXCEPT
                   !.note = JsonNotes[choice[1]],
                   !.cost = JsonCosts[choice[2]],
                   !.construction = JsonConstructions[choice[3]],
                   !.other_names = JsonOtherNames[choice[4]]]
      stadium == StadiumOf(BasicData(1, 1, FALSE, FALSE, FALSE), parsed, None)
  IN IF assembled THEN stadium
     ELSE [stadium EXCEPT !.league = BasicData(1, 1, FALSE, FALSE, FALSE).league]

\* CountryStadiumsData(country, url, tuple(stadiums)) of scrape_country_stadiums
JsonCountry(choice, assembled) ==
  [t |-> "CountryStadiumsData", country |-> CountryOf(1, FALSE), url |-> UrlOf(1, FALSE),
   stadiums |-> Tuple(<<JsonStadium(choice, assembled)>>)]

JsonRecord(choice, assembled, country) ==
  IF country THEN JsonCountry(choice, assembled) ELSE JsonStadium(choice, assembled)

JsonChoices ==
  (1..Len(JsonNotes)) \X (1..Len(JsonCosts)) \X (1..Len(JsonConstructions))
    \X (1..Len(JsonOtherNames))

InitJson ==
  /\ pc = "record"
  /\ site = "sample"
  /\ countries = << >>
  /\ Fresh
  /\ \E choice \in JsonChoices : \E assembled \in BOOLEAN : \E country \in BOOLEAN :
       input = JsonRecord(choice, assembled, country)
  /\ output = None

\* record.json
Project ==
  /\ pc = "record"
  /\ output' = json(input)
  /\ pc' = "projected"
  /\ UNCHANGED <<input, scraping, parsing>>

\* type(record).from_json(record.json)
Rebuild ==
  /\ pc = "projected"
  /\ output' = from_json(input.t, output)
  /\ pc' = "rebuilt"
  /\ UNCHANGED <<input, scraping, parsing>>

NextJson ==
  \/ Project
  \/ Rebuild

SpecJson == InitJson /\ [][NextJson]_vars

(***************************************************************************)
(* The throttling wrappers on their own: a call of an operation wrapped    *)
(* by throttled(delay, offset).                                            *)
(***************************************************************************)
\* how the wrapped operation may end, the delays and the offsets (in
\* milliseconds) throttled() may be given
Operations == <<Returned(Str(<<"r">>)), Returned(None), Raised("ScrapingError")>>
Delays == <<Seconds(0), Seconds(300), Seconds(1000), throttling_delay>>
Offsets == <<0, 200, -200, 3>>

InitThrottle ==
  /\ pc = "call"
  /\ site = "sample"
  /\ countries = << >>
  /\ Fresh
  /\ \E o \in 1..Len(Operations) : \E d \in 1..Len(Delays) : \E k \in 1..Len(Offsets) :
       input = [func |-> Operations[o], delay |-> Delays[d], offset |-> Offsets[k]]
  /\ output = None

\* a call of the wrapper of pilka.utils.scrape.throttled(delay, offset)
Throttled ==
  /\ pc = "call"
  /\ \E sample \in Uniform(input.delay, input.offset) :
       output' = wrapper(input.func, input.delay, input.offset, sample)
  /\ pc' = "throttled"
  /\ UNCHANGED <<input, scraping, parsing>>

\* a call of the wrapper of stadiums.utils.scrape.throttled(delay)
LegacyThrottled ==
  /\ pc = "call"
  /\ input.offset = 0
  /\ \E sample \in LegacySamples(input.delay) :
       output' = legacy_wrapper(input.func, input.delay, sample)
  /\ pc' = "legacy throttled"
  /\ UNCHANGED <<input, scraping, parsing>>

NextThrottle ==
  \/ Throttled
  \/ LegacyThrottled

SpecThrottle == InitThrottle /\ [][NextThrottle]_vars

(***************************************************************************)
(* The cost parser on texts of space-separated tokens.                     *)
(***************************************************************************)
MaxTokens == 4

\* the tokens a cost text is made of: amounts, qualifiers of each magnitude,
\* a word that only ends with a qualifier, a currency, a merged
\* currency-amount, a currency code and the two digit groups of 1 200
CostTokens ==
  <<<<"4", "5">>,
    <<"4", ".", "1">>,
    <<"m", "l", "n">>,
    <<"b", "i", "l", "l", "i", "o", "n">>,
    <<"t", "r", "i", "l", "l", "i", "o", "n">>,
    <<"k", "m", "l", "n">>,
    <<"z", "U+0142">>,
    <<"$", "4", "5">>,
    <<"P", "L", "N">>,
    <<"1">>,
    <<"2", "0", "0">>,
    <<"U+0664", "U+0665">>,
    <<"4", "U+00B2">>>>

\* the texts of n tokens with a space between them
RECURSIVE TokenTexts(_)
TokenTexts(n) ==
  IF n = 1 THEN {CostTokens[i] : i \in 1..Len(CostTokens)}
  ELSE {text \o <<" ">> \o CostTokens[i] :
          text \in TokenTexts(n - 1), i \in 1..Len(CostTokens)}

InitTokens ==
  /\ pc = "cost"
  /\ site = "sample"
  /\ countries = << >>
  /\ Fresh
  /\ input \in UNION {TokenTexts(n) : n \in 1..MaxTokens}
  /\ output = None

SpecTokens == InitTokens /\ [][NextCost]_vars

(***************************************************************************)
(* Stadium.is_modern on its own.                                           *)
(***************************************************************************)
Bool(b) == [t |-> "bool", v |-> b]

_KORONA_INAUGURATION == Date(2006, 4, 1)

StartOf(d) == IF d.t = "Duration" THEN d.start ELSE d

\* d.end if isinstance(d, Duration) else d
EndOf(d) == IF d.t = "Duration" THEN d.end ELSE d

IsNotNone(v) == v # None

\* max() of a non-empty list of dates: the first of the greatest
RECURSIVE max(_)
max(dates) ==
  IF Len(dates) = 1 THEN dates[1]
  ELSE LET rest == max(Tail(dates))
       IN IF DateLE(rest, dates[1]) THEN dates[1] ELSE rest

is_modern(self) ==
  LET last_renovation ==
        IF Truthy(self.renovations) THEN self.renovations.v[Len(self.renovations.v)] ELSE None
      present ==
        SelectSeq(<<self.design, self.construction, self.inauguration, last_renovation>>, IsNotNone)
      dates == SeqOf([i \in 1..Len(present) |-> EndOf(present[i])], Len(present))
  IN IF dates = << >> THEN Bool(FALSE)
     ELSE Bool(DateLE(_KORONA_INAUGURATION, max(dates)))

\* what the temporal fields of a Stadium may hold
ModernDesigns == <<None, Date(1998, 1, 1), Duration(Date(2005, 1, 1), Date(2007, 1, 1))>>
ModernConstructions ==
  <<None, Date(2006, 3, 31), Duration(Date(2004, 5, 1), Date(2006, 4, 2))>>
ModernInaugurations == <<None, Date(2006, 4, 1), Date(2006, 3, 31), Date(2010, 6, 1)>>
ModernRenovations ==
  <<None,
    Tuple(<<Date(2012, 1, 1), Date(2001, 1, 1)>>),
    Tuple(<<Date(1999, 1, 1), Duration(Date(2005, 1, 1), Date(2008, 1, 1))>>)>>

ModernStadium(choice) ==
  StadiumOf(BasicData(1, 1, FALSE, FALSE, FALSE),
            [InitialFields EXCEPT
               !.design = ModernDesigns[choice[1]],
               !.construction = ModernConstructions[choice[2]],
               !.inauguration = ModernInaugurations[choice[3]],
               !.renovations = ModernRenovations[choice[4]]],
            None)

ModernChoices ==
  (1..Len(ModernDesigns)) \X (1..Len(ModernConstructions)) \X (1..Len(ModernInaugurations))
    \X (1..Len(ModernRenovations))

InitModern ==
  /\ pc = "stadium"
  /\ site = "sample"
  /\ countries = << >>
  /\ Fresh
  /\ \E choice \in ModernChoices : input = ModernStadium(choice)
  /\ output = None

\* stadium.is_modern
IsModern ==
  /\ pc = "stadium"
  /\ output' = is_modern(input)
  /\ pc' = "modern"
  /\ UNCHANGED <<input, scraping, parsing>>

NextModern == IsModern

SpecModern == InitModern /\ [][NextModern]_vars

(***************************************************************************)
(* extract_date on its own.                                                *)
(***************************************************************************)
MaxDateTokens == 3

\* the tokens a date text is made of: years, months and days, a day no
\* month has in 1955, and letters
DateTokens ==
  <<<<"1", "9", "5", "5">>,
    <<"2", "0", "2", "4">>,
    <<"0", "6">>,
    <<"2", "3">>,
    <<"3", "1">>,
    <<"0", "2">>,
    <<"a", "b">>,
    <<"7">>>>

DateSeparators == <<<<".">>, <<"/">>, <<"-">>>>

\* the texts of n tokens with the separator between them
RECURSIVE DateTexts(_, _)
DateTexts(n, sep) ==
  IF n = 1 THEN {DateTokens[i] : i \in 1..Len(DateTokens)}
  ELSE {text \o sep \o DateTokens[i] : text \in DateTexts(n - 1, sep), i \in 1..Len(DateTokens)}

\* texts with two kinds of separators, or with words around the date
OtherDateTexts ==
  {<<"2", "3", ".", "0", "6", "/", "1", "9", "5", "5">>,
   <<"1", "9", "5", "5", " ", "r", ".">>,
   <<"c", ".", " ", "1", "9", "5", "5">>,
   <<"J", "u", "n", "e", " ", "1", "9", "5", "5">>,
   <<"U+0662", "U+0663", ".", "U+0660", "U+0666", ".", "U+0661", "U+0669", "U+0665", "U+0665">>,
   <<"1", "9", "5", "U+00B2">>,
   <<"1", "9", "5", "5", "U+00B2">>,
   <<"0", "6", ".", "1", "9", "5", "5", "U+2009", "r">>}

InitDate ==
  /\ pc = "text"
  /\ site = "sample"
  /\ countries = << >>
  /\ Fresh
  /\ \E text \in OtherDateTexts
                   \cup UNION {DateTexts(n, DateSeparators[s]) :
                                 n \in 1..MaxDateTokens, s \in 1..Len(DateSeparators)} :
       \E month_in_the_middle \in BOOLEAN :
         input = [text |-> text, month_in_the_middle |-> month_in_the_middle]
  /\ output = None

\* extract_date(text, month_in_the_middle)
ExtractDate ==
  /\ pc = "text"
  /\ output' = extract_date_flag(input.text, input.month_in_the_middle)
  /\ pc' = "dated"
  /\ UNCHANGED <<input, scraping, parsing>>

NextDate == ExtractDate

SpecDate == InitDate /\ [][NextDate]_vars

(***************************************************************************)
(* extract_float on its own.                                               *)
(***************************************************************************)
MaxFloatParts == 5

\* what a text with a number is made of: digits, a comma, a period and
\* other characters
FloatParts ==
  <<<<"1">>, <<"2", "3", "4">>, <<"5">>, <<",">>, <<".">>, <<"n", "/", "a">>,
    <<"U+0663">>, <<"U+00B2">>>>

\* the texts of n parts
RECURSIVE FloatTexts(_)
FloatTexts(n) ==
  IF n = 1 THEN {FloatParts[i] : i \in 1..Len(FloatParts)}
  ELSE {text \o FloatParts[i] : text \in FloatTexts(n - 1), i \in 1..Len(FloatParts)}

InitFloat ==
  /\ pc = "text"
  /\ site = "sample"
  /\ countries = << >>
  /\ Fresh
  /\ input \in UNION {FloatTexts(n) : n \in 1..MaxFloatParts}
  /\ output = None

\* extract_float(text)
ExtractFloat ==
  /\ pc = "text"
  /\ output' = extract_float(input)
  /\ pc' = "floated"
  /\ UNCHANGED <<input, scraping, parsing>>

NextFloat == ExtractFloat

SpecFloat == InitFloat /\ [][NextFloat]_vars

(***************************************************************************)
(* The duration parser on its own.                                         *)
(***************************************************************************)
\* the parts a duration text is made of: years of four and two digits,
\* parts of their lengths that are no integers, a year with a space after
\* it, a part of three digits, a full date, the year 0, which the calendar
\* does not have, and a day the calendar does not have
DurationParts ==
  <<<<"1", "9", "9", "0">>,
    <<"9", "5">>,
    <<"1", "9", "9", "5">>,
    <<"1", "9", "a", "0">>,
    <<"9", "x">>,
    <<"2", "0", "0", "5", " ">>,
    <<"1", "9", "9">>,
    <<"1", "2", ".", "0", "5", ".", "1", "9", "8", "0">>,
    <<"0", "5">>,
    <<"0", "0", "0", "0">>,
    <<"3", "1", ".", "0", "2", ".", "1", "9", "8", "0">>,
    <<"U+0661", "U+0669", "U+0669", "U+0660">>,
    <<"1", "9", "9", "U+00B2">>,
    <<"U+3000", "1", "9", "9", "5">>>>

\* what stands between the parts
DurationJoints == <<<<"-">>, <<"/">>, <<" ", "-", " ">>>>

\* a part alone, and two and three parts with a joint between them
DurationTexts ==
  LET P == {DurationParts[i] : i \in 1..Len(DurationParts)}
      J == {DurationJoints[i] : i \in 1..Len(DurationJoints)}
  IN P \cup {first \o joint \o second : first \in P, joint \in J, second \in P}
       \cup {first \o joint \o first \o joint \o first : first \in P, joint \in J}

InitDuration ==
  /\ pc = "text"
  /\ site = "sample"
  /\ countries = << >>
  /\ Fresh
  /\ input \in DurationTexts
  /\ output = None

\* DetailsScraper._parse_duration(text)
ParseDuration ==
  /\ pc = "text"
  /\ output' = _parse_duration(input)
  /\ pc' = "duration"
  /\ UNCHANGED <<input, scraping, parsing>>

NextDuration == ParseDuration

SpecDuration == InitDuration /\ [][NextDuration]_vars

(***************************************************************************)
(* The preparation of a cost text on its own.                              *)
(***************************************************************************)
\* the parts a cost text is made of: approximation prefixes, an amount with
\* its qualifier, an aside in parentheses, a currency, an alternate value
\* and a space
PrepareParts ==
  <<<<"a", "p", "p", "r", "o", "x", ".", " ">>,
    <<"o", "k", ".", " ">>,
    <<"4", "5", " ", "m", "l", "n">>,
    <<" ", "(", "e", "s", "t", ".", ")">>,
    <<" ", "z", "U+0142">>,
    <<" ", "/", " ", "$", "1", "0">>,
    <<" ">>>>

\* the texts of one, two and three parts
PrepareTexts ==
  LET P == {PrepareParts[i] : i \in 1..Len(PrepareParts)}
  IN P \cup {first \o second : first \in P, second \in P}
       \cup {first \o second \o third : first \in P, second \in P, third \in P}

InitPrepare ==
  /\ pc = "text"
  /\ site = "sample"
  /\ countries = << >>
  /\ Fresh
  /\ input \in PrepareTexts
  /\ output = None

\* _CostSubParser._prepare_text(text)
PrepareText ==
  /\ pc = "text"
  /\ output' = Returned(Str(_prepare_text(input)))
  /\ pc' = "prepared"
  /\ UNCHANGED <<input, scraping, parsing>>

NextPrepare == PrepareText

SpecPrepare == InitPrepare /\ [][NextPrepare]_vars

(***************************************************************************)
(* The renovations parser on its own.                                      *)
(***************************************************************************)
\* the entries a renovations text is made of: a year, a pair of years, an
\* entry that is no date, a day the calendar does not have, a year with an
\* aside and a full date
RenovationEntries ==
  <<<<"1", "9", "9", "0">>,
    <<"1", "9", "9", "5", "-", "9", "8">>,
    <<"a", "b", "c">>,
    <<"3", "1", ".", "0", "2", ".", "1", "9", "9", "5">>,
    <<"2", "0", "0", "1", " ", "(", "r", "o", "o", "f", ")">>,
    <<"1", "2", ".", "0", "5", ".", "1", "9", "8", "0">>>>

\* what stands between the entries, and at the end of the text
RenovationJoints == <<<<",", " ">>, <<",">>>>
RenovationEnds == <<<< >>, <<".">>>>

\* the texts of one, two and three entries
RenovationTexts ==
  LET E == {RenovationEntries[i] : i \in 1..Len(RenovationEntries)}
      J == {RenovationJoints[i] : i \in 1..Len(RenovationJoints)}
      Z == {RenovationEnds[i] : i \in 1..Len(RenovationEnds)}
  IN {first \o end : first \in E, end \in Z}
       \cup {first \o joint \o second \o end : first \in E, joint \in J, second \in E, end \in Z}
       \cup {first \o joint \o second \o joint \o third \o end :
               first \in E, joint \in J, second \in E, third \in E, end \in Z}

InitRenovations ==
  /\ pc = "text"
  /\ site = "sample"
  /\ countries = << >>
  /\ Fresh
  /\ input \in RenovationTexts
  /\ output = None

\* DetailsScraper._parse_renovations() on self._text
ParseRenovations ==
  /\ pc = "text"
  /\ output' = _parse_renovations(input)
  /\ pc' = "renovations"
  /\ UNCHANGED <<input, scraping, parsing>>

NextRenovations == ParseRenovations

SpecRenovations == InitRenovations /\ [][NextRenovations]_vars

(***************************************************************************)
(* The parse of a compound cost step by step: each frame is a call of      *)
(* _handle_compound_cost that has not returned, with the text of its       *)
(* parser, the tokens it was split in, the number of tokens parsed and     *)
(* the sum so far.                                                         *)
(***************************************************************************)
\* the frame of _handle_compound_cost on the prepared text of a parser
Frame(text_) ==
  [text |-> text_, tokens |-> CompoundTokens(text_), i |-> 0, compound |-> None]

\* the frame after the parse of its next token returned cost
Advanced(frame, cost) ==
  [frame EXCEPT !.i = frame.i + 1, !.compound = Compounded(frame.compound, cost)]

InitCompound ==
  /\ pc = "cost"
  /\ site = "sample"
  /\ countries = << >>
  /\ Fresh
  /\ input \in UNION {CostTexts(n) : n \in 1..MaxSegments}
  /\ output = None

\* the outcome of a parse that is not compound ends the whole parse when it
\* is an exception, and goes to the calling frame otherwise
Returns(outer, cost) ==
  IF cost.exc # "none" \/ outer = << >>
    THEN /\ frames' = << >>
         /\ output' = cost
         /\ pc' = "parsed"
  ELSE /\ frames' = [outer EXCEPT ![Len(outer)] = Advanced(outer[Len(outer)], cost.val)]
       /\ pc' = "compound"
       /\ UNCHANGED output

\* _CostSubParser(text).parse() on the prepared text, called from the frames
\* in outer: a compound text starts _handle_compound_cost
Parse(outer, text_) ==
  IF HasCompoundSeparator(text_)
    THEN /\ frames' = Append(outer, Frame(text_))
         /\ pc' = "compound"
         /\ UNCHANGED <<output, warnings>>
  ELSE /\ Returns(outer, ParseTokens(text_, split_ws(text_)))
       /\ warnings' = warnings + (IF Unexpected(split_ws(text_)) THEN 1 ELSE 0)

\* _CostSubParser(text).parse() on the cost text
StartParse ==
  /\ pc = "cost"
  /\ Parse(<< >>, _prepare_text(input))
  /\ UNCHANGED <<input, calls, unlogged>>

\* `cost = _CostSubParser(t).parse()` on the next token of the innermost
\* _handle_compound_cost
ParseToken ==
  /\ pc = "compound"
  /\ frames[Len(frames)].i < Len(frames[Len(frames)].tokens)
  /\ calls' = calls + 1
  /\ Parse(frames, _prepare_text(frames[Len(frames)].tokens[frames[Len(frames)].i + 1]))
  /\ UNCHANGED <<input, unlogged>>

\* `return compound` of the innermost _handle_compound_cost, its tokens done
ReturnCompound ==
  /\ pc = "compound"
  /\ frames[Len(frames)].i = Len(frames[Len(frames)].tokens)
  /\ Returns(SubSeq(frames, 1, Len(frames) - 1), Returned(frames[Len(frames)].compound))
  /\ UNCHANGED <<input, calls, scraping>>

NextCompound == StartParse \/ ParseToken \/ ReturnCompound

SpecCompound == InitCompound /\ [][NextCompound]_vars

(***************************************************************************)
(* Properties of the run of dump_stadiums (Spec)                           *)
(***************************************************************************)
\* the number of stadiums of the batch whose scrape ended as `how`
Ended(how) == Cardinality({i \in 1..Len(outcomes) : outcomes[i] = how})

\* C1: no exception raised by the scrape of one stadium ends the batch: the
\* scraping of every country taken ends with its listing exhausted (with the
\* country's data, or None with nothing scraped), and of the idx stadiums
\* taken so far, k of them without the details table, idx - k are yielded.
C1_NoScrapeEndsTheBatch ==
  /\ \A c \in 1..Len(ended) : ended[c] \in {"None", "CountryStadiumsData"}
  /\ pc = "batch" => Len(stadiums) = idx - Ended("ScrapingError")

\* the scrape of the stadium taken last has ended
ScrapeEnded == idx > 0 /\ Len(outcomes) = idx

\* C2: on a page that has the details table scrape() gets to its return
\* statement whatever the rows: no row's text makes it raise.
C2_ScrapeReturnsWhateverTheRows ==
  (ScrapeEnded /\ soup = "table") => result # None

\* C6: scrape() on a detail page whose fetch returned None raises
\* ScrapingError and nothing else.
C6_NoneFetchRaisesScrapingError ==
  (ScrapeEnded /\ soup = "None") => outcomes[idx] = "ScrapingError"

\* C8: a sleep of the throttling wrapper lies between any two consecutive
\* fetches of detail pages of a batch.
C8_SleepBetweenFetches ==
  \A i \in 1..(Len(events) - 1) : ~(events[i] = "fetch" /\ events[i + 1] = "fetch")

\* C9: once dump_stadiums is done its output holds every record that
\* scrape() has returned during the run.
C9_ExtractedAreDumped ==
  pc = "done" => \A i \in 1..Len(extracted) :
                   \E c \in 1..Len(data) : \E j \in 1..Len(data[c].d.stadiums.v) :
                     data[c].d.stadiums.v[j] = json(extracted[i])

(***************************************************************************)
(* Properties of one scrape (SpecScrape)                                   *)
(***************************************************************************)
\* the text scrape() hands to the parsers for a row
TextOf(row) == normalize(strip(row.td))

\* what the parser of the cost, construction and inauguration rows makes of
\* each row seen (None for a row of another field)
CostsSeen ==
  [i \in 1..Len(seen) |->
     IF seen[i].th \in RowsOf(scraper).cost THEN _parse_cost(TextOf(seen[i]))
     ELSE Returned(None)]

ConstructionsSeen ==
  [i \in 1..Len(seen) |->
     IF seen[i].th \in RowsOf(scraper).construction
       THEN NoneIfValueError(_parse_duration(_trim_multiples(TextOf(seen[i]))))
     ELSE Returned(None)]

InaugurationsSeen ==
  [i \in 1..Len(seen) |->
     IF seen[i].th \in RowsOf(scraper).inauguration THEN _parse_inauguration(TextOf(seen[i]))
     ELSE Returned(None)]

\* the rows parsed successfully, and the value of the first of them (None
\* when there is none)
Successes(parsed) ==
  {i \in 1..Len(parsed) : parsed[i].exc = "none" /\ Truthy(parsed[i].val)}

FirstParsed(parsed) ==
  IF Successes(parsed) = {} THEN None ELSE parsed[SetMin(Successes(parsed))].val

\* C3: the Stadium that scrape() returns holds, as its cost, construction
\* and inauguration, the value of the first row of the field that parsed
\* successfully: the rows that failed before it do not prevent it and the
\* rows after it do not change it.
C3_FirstParsedRowWins ==
  pc = "wrapper" =>
    /\ result.cost = FirstParsed(CostsSeen)
    /\ result.construction = FirstParsed(ConstructionsSeen)
    /\ IF FirstParsed(InaugurationsSeen) = None THEN result.inauguration = None
       ELSE /\ result.inauguration = FirstParsed(InaugurationsSeen).v[1]
            /\ result.inauguration_details = FirstParsed(InaugurationsSeen).v[2]

\* a Stadium was returned after two cost rows that parse to different costs,
\* and it holds the cost of the first
C3_Witness ==
  /\ pc = "wrapper"
  /\ Len(seen) = 2
  /\ Successes(CostsSeen) = {1, 2}
  /\ CostsSeen[1] # CostsSeen[2]
  /\ result.cost = CostsSeen[1].val

(***************************************************************************)
(* Properties of the cost parser (SpecCost)                                *)
(***************************************************************************)
\* the segments of the prepared text of a compound cost, and what parse()
\* makes of each
IsCompound(text) ==
  \E s \in 1..Len(COMPOUND_SEPARATORS) : Contains(_prepare_text(text), COMPOUND_SEPARATORS[s])

Segments(text) ==
  split(_prepare_text(text),
        IF Contains(_prepare_text(text), COMPOUND_SEPARATORS[1])
          THEN COMPOUND_SEPARATORS[1] ELSE COMPOUND_SEPARATORS[2])

SegmentCosts(text) ==
  [i \in 1..Len(Segments(text)) |-> _CostSubParser_parse(Segments(text)[i])]

\* the segments that parse to a Cost, and those of them in the currency of the first
ParsedSegments(costs) == {i \in 1..Len(costs) : costs[i].exc = "none" /\ costs[i].val # None}

SummedSegments(costs) ==
  {i \in ParsedSegments(costs) :
     costs[i].val.currency = costs[SetMin(ParsedSegments(costs))].val.currency}

\* the sum of the amounts of the segments in S, a numeral
RECURSIVE AmountOf(_, _)
AmountOf(costs, S) ==
  IF S = {} THEN <<0>>
  ELSE NumAdd(costs[SetMin(S)].val.amount.num, AmountOf(costs, S \ {SetMin(S)}))

\* the Cost a compound text stands for (None when no segment parses)
CompoundCost(costs) ==
  IF ParsedSegments(costs) = {} THEN None
  ELSE Cost(IntOf(AmountOf(costs, SummedSegments(costs))),
            costs[SetMin(ParsedSegments(costs))].val.currency)

\* C10: the parse of a compound cost text returns the sum of the amounts of
\* the segments that parse to a cost in the currency of the first of them, in
\* that currency; the segments in another currency and those that do not
\* parse to a cost add nothing.
C10_CompoundCostIsTheSum ==
  (pc = "parsed" /\ IsCompound(input))
  => output = Returned(CompoundCost(SegmentCosts(input)))

(***************************************************************************)
(* Properties of the JSON projection (SpecJson)                            *)
(***************************************************************************)
\* C4: from_json of the json of a record is the record.
C4_RoundTrip == pc = "rebuilt" => output = input

\* text is the ISO-8601 form YYYY-MM-DD of the date d
IsIsoOf(text, d) ==
  /\ Len(text) = 10
  /\ text[5] = "-" /\ text[8] = "-"
  /\ \A i \in {1, 2, 3, 4, 6, 7, 9, 10} : IsAsciiDigit(text[i])
  /\ NumVal(<<DigitVal(text[1]), DigitVal(text[2]), DigitVal(text[3]), DigitVal(text[4])>>)
       = d.year
  /\ NumVal(<<DigitVal(text[6]), DigitVal(text[7])>>) = d.month
  /\ NumVal(<<DigitVal(text[9]), DigitVal(text[10])>>) = d.day

\* j is the projection of the value v: a list for a tuple or a list, item by
\* item; the ISO string for a date; a dict of the projections of the fields
\* that are not None for an instance or a dict; v itself otherwise
RECURSIVE Projects(_, _)
Projects(v, j) ==
  IF v.t \in {"tuple", "list"}
    THEN /\ j.t = "list"
         /\ Len(j.v) = Len(v.v)
         /\ \A i \in 1..Len(v.v) : Projects(v.v[i], j.v[i])
  ELSE IF v.t = "date" THEN j.t = "str" /\ IsIsoOf(j.v, v)
  ELSE IF is_dataclass(v)
    THEN /\ j.t = "dict"
         /\ DOMAIN j.d = {k \in FieldNames(v.t) : v[k] # None}
         /\ \A k \in DOMAIN j.d : Projects(v[k], j.d[k])
  ELSE IF v.t = "dict"
    THEN /\ j.t = "dict"
         /\ DOMAIN j.d = {k \in DOMAIN v.d : v.d[k] # None}
         /\ \A k \in DOMAIN j.d : Projects(v.d[k], j.d[k])
  ELSE j = v

\* C5: the json of a record has, at every depth, no dict field that is
\* None, an ISO-8601 string for every date and a list for every tuple, its
\* items projected the same way.
C5_JsonProjection == pc = "projected" => Projects(input, output)

\* the record of countries projected holds a Stadium with fields that are
\* None, a date, and a tuple with an instance in it
C5_Witness ==
  /\ pc = "projected"
  /\ input.t = "CountryStadiumsData"
  /\ input.stadiums.v[1].cost = None
  /\ input.stadiums.v[1].construction.t = "date"
  /\ input.stadiums.v[1].other_names.t = "tuple"
  /\ output.d.stadiums.v[1].d.construction.t = "str"

(***************************************************************************)
(* Properties of the throttling wrappers (SpecThrottle)                    *)
(***************************************************************************)
\* C7: a call of the wrapper of throttled(delay), the wrapped operation
\* having returned, sleeps for delay seconds when delay is a number, for
\* what a call of delay gives when it is throttling_delay, and returns what
\* the operation returned.
C7_ThrottledSleepsAndReturns ==
  (pc = "throttled" /\ input.func.exc = "none" /\ input.offset = 0) =>
    /\ output.exc = "none"
    /\ output.val = input.func.val
    /\ IF input.delay.t = "float" THEN output.slept = input.delay
       ELSE output.slept.t = "float" /\ output.slept.ms \in ThrottlingDelays

(***************************************************************************)
(* Properties of the cost parser on texts of tokens (SpecTokens)           *)
(***************************************************************************)
IsQualifier(token) ==
  InSeq(token, MILLION_QUALIFIERS \o BILLION_QUALIFIERS \o TRILLION_QUALIFIERS)

\* a decimal numeral: decimal digits with at most one period among them
IsNumeral(token) ==
  /\ \E i \in 1..Len(token) : isdecimal(token[i])
  /\ \A i \in 1..Len(token) : isdecimal(token[i]) \/ token[i] = "."
  /\ Cardinality({i \in 1..Len(token) : token[i] = "."}) <= 1

\* the numeral times 10^exp, exactly (exp is not less than the number of
\* its decimals)
TimesPow10(token, exp) ==
  LET dots == {i \in 1..Len(token) : token[i] = "."}
      decimals == IF dots = {} THEN 0 ELSE Len(token) - SetMin(dots)
  IN IntOf(NumNorm(NumOfChars(SelectSeq(token, isdecimal)) \o Zeros(exp - decimals)))

\* the tokens (1-based) of the text that equal a qualifier word
QualifiersAt(tokens) == {i \in 1..Len(tokens) : IsQualifier(tokens[i])}

\* C11: the parse of a text of three tokens, exactly one of them a qualifier
\* word and the amount's token a numeral: with the qualifier second, the Cost
\* of the first token times the multiplier in the currency of the third; with
\* the qualifier third, the Cost of the second token times the multiplier in
\* the currency of the first; and nothing when no token is a qualifier word
\* or the first one is.
C11_ThreeTokens ==
  (pc = "parsed" /\ input \in TokenTexts(3)) =>
    LET tokens == split_ws(input)
        Q == QualifiersAt(tokens)
    IN /\ (Q = {2} /\ IsNumeral(tokens[1])) =>
            output = Returned(Cost(TimesPow10(tokens[1], QualifierExp(tokens[2])), Str(tokens[3])))
       /\ (Q = {3} /\ IsNumeral(tokens[2])) =>
            output = Returned(Cost(TimesPow10(tokens[2], QualifierExp(tokens[3])), Str(tokens[1])))
       /\ (Q = {} \/ Q = {1}) => output = Returned(None)

\* C12: a Cost that the parse returns has an amount that is not negative and
\* a currency that is a non-empty text.
C12_CostIsWellFormed ==
  (pc = "parsed" /\ output.exc = "none" /\ output.val # None) =>
    /\ ~output.val.amount.neg
    /\ output.val.currency # None
    /\ output.val.currency.v # << >>

(***************************************************************************)
(* Properties of Stadium.is_modern (SpecModern)                            *)
(***************************************************************************)
\* the temporal values of the record that are present: design, construction
\* and the last renovation (the end of each if a Duration) and inauguration
TemporalValues(stadium) ==
  LET fields_ == {stadium.design, stadium.construction, stadium.inauguration}
      ends == {IF d.t = "Duration" THEN d.end ELSE d : d \in fields_ \ {None}}
      renovations == stadium.renovations
      last == IF renovations = None THEN {}
              ELSE LET r == renovations.v[Len(renovations.v)]
                   IN {IF r.t = "Duration" THEN r.end ELSE r}
  IN ends \cup last

Latest(dates) == CHOOSE d \in dates : \A e \in dates : DateLE(e, d)

\* C13: is_modern is true exactly when the record has a temporal value and
\* the latest of them is on or after 2006-04-01.
C13_IsModern ==
  pc = "modern" =>
    LET dates == TemporalValues(input)
    IN output = Bool(dates # {} /\ DateLE(Date(2006, 4, 1), Latest(dates)))

\* is_modern was taken of a record whose only temporal field is the
\* inauguration of 2006-04-01, and is true
C13_Witness ==
  /\ pc = "modern"
  /\ input.design = None /\ input.construction = None /\ input.renovations = None
  /\ input.inauguration = Date(2006, 4, 1)
  /\ output = Bool(TRUE)

(***************************************************************************)
(* Properties of the headers no scraper knows (SpecLabels)                 *)
(***************************************************************************)
\* the header is in an alias set of the scraper
Known(header) == \E field \in DOMAIN RowsOf(scraper) : header \in RowsOf(scraper)[field]

Before(header) ==
  IF header \in DOMAIN AGGREGATED_FIELDS THEN AGGREGATED_FIELDS[header] ELSE << >>

\* C14: a row whose header is not empty and in no alias set of the scraper
\* appends the stadium's URL to AGGREGATED_FIELDS[header] and lets scrape()
\* go on; any other row leaves AGGREGATED_FIELDS as it is; and no step of a
\* batch removes a header from it or changes what a header already lists.
C14_UnknownHeadersAreAggregated ==
  [][/\ (pc = "rows" /\ nrows' = nrows + 1) =>
          LET header == seen'[Len(seen')].th
          IN IF header # "" /\ ~Known(header)
               THEN /\ pc' = "rows"
                    /\ DOMAIN AGGREGATED_FIELDS' = DOMAIN AGGREGATED_FIELDS \cup {header}
                    /\ AGGREGATED_FIELDS'[header] = Before(header) \o <<basic_stadiums[idx].url>>
             ELSE AGGREGATED_FIELDS' = AGGREGATED_FIELDS
     /\ \A h \in DOMAIN AGGREGATED_FIELDS :
          /\ h \in DOMAIN AGGREGATED_FIELDS'
          /\ Len(AGGREGATED_FIELDS'[h]) >= Len(AGGREGATED_FIELDS[h])
          /\ SubSeq(AGGREGATED_FIELDS'[h], 1, Len(AGGREGATED_FIELDS[h])) = AGGREGATED_FIELDS[h]
    ]_vars

\* the pages of two countries had a row of the same unknown header, and a
\* row of a known header and one without a header were gone through
C14_Witness ==
  /\ ci = 2
  /\ "Capacity" \in DOMAIN AGGREGATED_FIELDS
  /\ Len(AGGREGATED_FIELDS["Capacity"]) = 2
  /\ AGGREGATED_FIELDS["Capacity"][1] # AGGREGATED_FIELDS["Capacity"][2]
  /\ Len(seen) = 2 /\ seen[1].th = "Capacity" /\ seen[2].th = ""

(***************************************************************************)
(* Properties of the note rows (SpecNotes)                                 *)
(***************************************************************************)
\* the texts of the note rows gone through, in order
NotesSeen ==
  LET IsNote(row) == row.th \in RowsOf(scraper).note
      rows == SelectSeq(seen, IsNote)
  IN SeqOf([i \in 1..Len(rows) |-> TextOf(rows[i])], Len(rows))

\* the text without one trailing '.'
WithoutPeriod(text) ==
  IF text # << >> /\ text[Len(text)] = "." THEN SubSeq(text, 1, Len(text) - 1) ELSE text

\* the first text followed, for each later one, by ', ' and the text with
\* its first character lower-cased
RECURSIVE RunningNote(_)
RunningNote(texts) ==
  IF Len(texts) = 1 THEN WithoutPeriod(texts[1])
  ELSE LET text == WithoutPeriod(texts[Len(texts)])
       IN RunningNote(SubSeq(texts, 1, Len(texts) - 1)) \o <<",", " ">>
            \o (IF text = << >> THEN << >> ELSE lower(text[1]) \o Tail(text))

\* C15: the note of the record that scrape() assembles is the running
\* sentence of its note rows when each has a body, and in any case still
\* starts with the text of the first note row when later note rows follow,
\* an empty one included.
C15_NotesAccumulate ==
  (pc = "wrapper" /\ NotesSeen # << >> /\ NotesSeen[1] # << >>) =>
    /\ (\A i \in 1..Len(NotesSeen) : NotesSeen[i] # << >>) =>
         result.note = Str(RunningNote(NotesSeen))
    /\ result.note # None
    /\ startswith(result.note.v, WithoutPeriod(NotesSeen[1]))

(***************************************************************************)
(* Properties of the rows without a header (SpecCapacities)                *)
(***************************************************************************)
\* the rows without a header gone through, in order
CapacitiesSeen ==
  LET IsUnlabeled(row) == row.th = ""
  IN SelectSeq(seen, IsUnlabeled)

\* the sum of the integers on each side of the '+' signs of the text
RECURSIVE SumOfSides(_)
SumOfSides(sides) ==
  IF sides = << >> THEN <<0>>
  ELSE NumAdd(NumOfChars(SelectSeq(Head(sides), isdecimal)), SumOfSides(Tail(sides)))

\* the capacity in the body text of a row: the integer before its
\* parenthesized note, or the sum for the A + B notation
CapacityIn(text) == IntOf(SumOfSides(split(partition(text, <<"(">>)[1], <<"+">>)))

\* C16: the sub-capacities of the record are those of the rows without a
\* header gone through, in row order, each with the capacity in its body
\* text, a designation that is None when the row has no span and a note that
\* is None when the text has no parenthesized part.
C16_SubCapacities ==
  /\ Len(f.sub_capacities) = Len(CapacitiesSeen)
  /\ \A i \in 1..Len(f.sub_capacities) :
       /\ f.sub_capacities[i].capacity = CapacityIn(TextOf(CapacitiesSeen[i]))
       /\ CapacitiesSeen[i].span = None => f.sub_capacities[i].designation = None
       /\ ~Contains(TextOf(CapacitiesSeen[i]), <<"(">>) => f.sub_capacities[i].note = None

(***************************************************************************)
(* Properties of extract_date (SpecDate)                                   *)
(***************************************************************************)
\* the separators of the text
SeparatorsIn(text) == {s \in {"/", ".", "-"} : \E i \in 1..Len(text) : text[i] = s}

\* the digits and separators of a text with one kind of separator at most,
\* split at the separators
DateTokensOf(text) ==
  LET kept(ch) == isdigit(ch) \/ ch \in SeparatorsIn(text)
  IN IF SeparatorsIn(text) = {} THEN <<SelectSeq(text, kept)>>
     ELSE split(SelectSeq(text, kept), <<CHOOSE s \in SeparatorsIn(text) : TRUE>>)

IsYear(token) == Len(token) = 4

\* the token is a number: decimal digits, of any script, and one at least
IsNumber(token) == token # << >> /\ \A i \in 1..Len(token) : isdecimal(token[i])

\* the year, month and day the tokens stand for; << >> when the tokens have
\* none of the three shapes or one of them is no number
YearMonthDay(tokens, month_in_the_middle) ==
  LET n(token) == NumVal(NumOfChars(token))
  IN IF \E i \in 1..Len(tokens) : ~IsNumber(tokens[i]) THEN << >>
     ELSE IF Len(tokens) = 1 /\ IsYear(tokens[1]) THEN <<n(tokens[1]), 1, 1>>
     ELSE IF Len(tokens) = 2 /\ IsYear(tokens[1]) THEN <<n(tokens[1]), n(tokens[2]), 1>>
     ELSE IF Len(tokens) = 2 /\ IsYear(tokens[2]) THEN <<n(tokens[2]), n(tokens[1]), 1>>
     ELSE IF Len(tokens) = 3 /\ (IsYear(tokens[1]) \/ IsYear(tokens[3]))
       THEN LET year == IF IsYear(tokens[1]) THEN tokens[1] ELSE tokens[3]
                other == IF IsYear(tokens[1]) THEN tokens[3] ELSE tokens[1]
            IN IF month_in_the_middle THEN <<n(year), n(tokens[2]), n(other)>>
               ELSE <<n(year), n(other), n(tokens[2])>>
     ELSE << >>

InCalendar(ymd) ==
  /\ ymd[1] \in 1..9999
  /\ ymd[2] \in 1..12
  /\ ymd[3] \in 1..DaysInMonth(ymd[1], ymd[2])

\* C17: on a text with one kind of separator at most, whose digits split at
\* the separators are one 4-digit token, two tokens one of them of 4 digits,
\* or three tokens the first or the last of 4 digits, extract_date returns
\* the date of that year, of the month of the other token of two or of the
\* middle one of three (the remaining one when the flag is false), and of
\* the day of the token left, 1 when there is none, if the calendar has it.
C17_ExtractDate ==
  (pc = "dated" /\ Cardinality(SeparatorsIn(input.text)) <= 1) =>
    LET ymd == YearMonthDay(DateTokensOf(input.text), input.month_in_the_middle)
    IN (ymd # << >> /\ InCalendar(ymd)) => output = Returned(Date(ymd[1], ymd[2], ymd[3]))

\* extract_date was applied to 23.06.1955 and gave 1955-06-23
C17_Witness ==
  /\ pc = "dated"
  /\ input.text = <<"2", "3", ".", "0", "6", ".", "1", "9", "5", "5">>
  /\ input.month_in_the_middle
  /\ output = Returned(Date(1955, 6, 23))

\* C18: extract_date returns a date or raises ParsingError, whatever the
\* text.
C18_OnlyParsingError ==
  pc = "dated" =>
    \/ output.exc = "none" /\ output.val.t = "date"
    \/ output.exc = "ParsingError"

(***************************************************************************)
(* Properties of extract_float (SpecFloat)                                 *)
(***************************************************************************)
Commas(text) == {i \in 1..Len(text) : text[i] = ","}
Periods(text) == {i \in 1..Len(text) : text[i] = "."}

\* digits with one comma or period at most, not at either end
IsPlainNumber(text) ==
  /\ text # << >>
  /\ \A i \in 1..Len(text) : isdecimal(text[i]) \/ text[i] \in {",", "."}
  /\ Cardinality(Commas(text) \cup Periods(text)) <= 1
  /\ isdecimal(text[1]) /\ isdecimal(text[Len(text)])

\* digits in groups of three after the first, with a comma before each,
\* then a period and decimals: 1,234.5
IsGroupedNumber(text) ==
  /\ Cardinality(Periods(text)) = 1
  /\ Commas(text) # {}
  /\ \A i \in 1..Len(text) : isdecimal(text[i]) \/ text[i] \in {",", "."}
  /\ isdecimal(text[1]) /\ isdecimal(text[Len(text)])
  /\ LET period == CHOOSE i \in Periods(text) : TRUE
     IN /\ \A i \in Commas(text) :
             /\ i < period
             /\ i + 4 <= period
             /\ text[i + 4] \in {",", "."}
             /\ \A j \in (i + 1)..(i + 3) : isdecimal(text[j])
        /\ SetMin(Commas(text)) <= 4

\* the number the digits of the text stand for, its decimals those after
\* the last comma or period that is not a grouping comma
NumberOf(text, grouped) ==
  LET marks == IF grouped THEN Periods(text) ELSE Commas(text) \cup Periods(text)
      decimals == IF marks = {} THEN 0 ELSE Len(text) - SetMin(marks)
  IN RoundToDouble(Dec(NumOfChars(SelectSeq(text, isdecimal)), decimals))

\* C19: extract_float returns the number of a plain numeric text, a comma
\* read as the decimal period, and of a text with grouping commas and a
\* decimal period; it raises ParsingError on a text without a digit, and
\* never another exception.
C19_ExtractFloat ==
  pc = "floated" =>
    /\ IsPlainNumber(input) => output = Returned(NumberOf(input, FALSE))
    /\ IsGroupedNumber(input) => output = Returned(NumberOf(input, TRUE))
    /\ (\A i \in 1..Len(input) : ~isdecimal(input[i])) => output.exc = "ParsingError"
    /\ output.exc \in {"none", "ParsingError"}

(***************************************************************************)
(* Properties of the duration parser (SpecDuration)                        *)
(***************************************************************************)
\* the separator the duration parser detects in the text: '-' before '/'
RangeSeparator(text) ==
  IF \E i \in 1..Len(text) : text[i] = "-" THEN <<"-">>
  ELSE IF \E i \in 1..Len(text) : text[i] = "/" THEN <<"/">>
  ELSE << >>

\* the text is split: it has a separator and is not taken for a date with
\* slashes (of 7 or 10 characters)
IsSplit(text) ==
  /\ RangeSeparator(text) # << >>
  /\ ~(RangeSeparator(text) = <<"/">> /\ Len(text) \in {7, 10})

\* the two parts of a text split in two, without the spaces around them
YearPair(text) ==
  LET parts == split(text, RangeSeparator(text))
  IN IF IsSplit(text) /\ Len(parts) = 2 THEN <<strip(parts[1]), strip(parts[2])>> ELSE << >>

\* the part is an integer: decimal digits, of any script, and one at least
IsInteger(part) == part # << >> /\ \A i \in 1..Len(part) : isdecimal(part[i])

YearOf(part) == NumVal(NumOfChars(part))

\* the part reads as an integer to int(): decimal digits, of any script, with
\* single underscores between them allowed, after a sign or without one
IsIntegerLiteral(part) ==
  LET body == IF part # << >> /\ part[1] \in {"+", "-"} THEN Tail(part) ELSE part
  IN /\ body # << >>
     /\ \A i \in 1..Len(body) :
          \/ isdecimal(body[i])
          \/ /\ body[i] = "_"
             /\ 1 < i /\ i < Len(body)
             /\ isdecimal(body[i - 1]) /\ isdecimal(body[i + 1])

\* the year such a part stands for, when it has no minus sign
LiteralYear(part) == YearOf(SelectSeq(part, isdecimal))

\* C20: on a text split in two by the separator, the first part of 4
\* characters and the second of 2 or 4, the duration parser returns the
\* Duration from January 1 of the year of the first part to January 1 of the
\* year of the second, which is the second part after the first two
\* characters of the first when it has 2 characters, when both are integers,
\* and None when one of them is no integer.
C20_YearPair ==
  (pc = "duration" /\ YearPair(input) # << >>) =>
    LET first == YearPair(input)[1]
        second == YearPair(input)[2]
        end == IF Len(second) = 2 THEN SubSeq(first, 1, 2) \o second ELSE second
    IN (Len(first) = 4 /\ Len(second) \in {2, 4}) =>
         /\ (IsIntegerLiteral(first) /\ IsIntegerLiteral(second)) =>
              output = Returned(Duration(Date(LiteralYear(first), 1, 1),
                                         Date(LiteralYear(end), 1, 1)))
         /\ (~IsIntegerLiteral(first) \/ ~IsIntegerLiteral(second)) => output = Returned(None)

\* the two sides of the range are a bare pair of years: integers of 4 and
\* of 2 or 4 digits
IsYearPair(first, second) ==
  /\ Len(first) = 4 /\ Len(second) \in {2, 4}
  /\ IsInteger(first) /\ IsInteger(second)

\* C21: on a text with one range separator whose two sides are no bare pair
\* of years, the duration parser returns the Duration of extract_date of the
\* left side and extract_date of the right side, and None, with no
\* exception, when extract_date fails on one of the sides.
C21_DatePair ==
  (pc = "duration" /\ YearPair(input) # << >>) =>
    LET first == YearPair(input)[1]
        second == YearPair(input)[2]
        start == extract_date(first)
        end == extract_date(second)
    IN ~IsYearPair(first, second) =>
         IF start.exc = "none" /\ end.exc = "none"
           THEN output = Returned(Duration(start.val, end.val))
         ELSE output = Returned(None)

\* C22: every Duration the duration parser returns has its start on or
\* before its end, two-digit end years included.
C22_StartBeforeEnd ==
  (pc = "duration" /\ output.exc = "none" /\ output.val.t = "Duration") =>
    DateLE(output.val.start, output.val.end)

(***************************************************************************)
(* Further properties of the cost parser on texts of tokens (SpecTokens)   *)
(***************************************************************************)
\* C23: the parse of a cost text never raises: on every text of one, two,
\* three and more than three tokens it returns a Cost or None.
C23_ParseNeverRaises ==
  pc = "parsed" =>
    /\ output.exc = "none"
    /\ output.val = None \/ output.val.t = "Cost"

\* C24: on a text of two tokens with no qualifier, one token without a digit
\* (the currency, no qualifier word) and the other an integer, the parse
\* returns the Cost of the integer in that currency, in either order of the
\* tokens and whatever the letters of the currency.
C24_TwoTokensNoQualifier ==
  (pc = "parsed" /\ input \in TokenTexts(2)) =>
    LET tokens == split_ws(input)
    IN \A i \in 1..2 :
         (NoDigit(tokens[i]) /\ ~IsQualifier(tokens[i]) /\ IsInteger(tokens[3 - i])) =>
           output = Returned(Cost(IntOf(NumNorm(NumOfChars(tokens[3 - i]))), Str(tokens[i])))

(***************************************************************************)
(* Properties of the preparation of a cost text (SpecPrepare)              *)
(***************************************************************************)
\* the text without its asides: each part from a "(" to the next ")"
RECURSIVE WithoutAsides(_)
WithoutAsides(text) ==
  LET open == {i \in 1..Len(text) : text[i] = "("}
      close == {j \in 1..Len(text) : text[j] = ")" /\ open # {} /\ j > SetMin(open)}
  IN IF open = {} \/ close = {} THEN text
     ELSE SubSeq(text, 1, SetMin(open) - 1)
            \o WithoutAsides(SubSeq(text, SetMin(close) + 1, Len(text)))

\* the text without what follows the first " / "
WithoutAlternate(text) == partition(text, <<" ", "/", " ">>)[1]

\* the text without one approximation prefix at its start
WithoutApproximation(text) ==
  IF \E i \in 1..Len(APPROXIMATORS) : startswith(text, APPROXIMATORS[i])
    THEN LET i == SetMin({j \in 1..Len(APPROXIMATORS) : startswith(text, APPROXIMATORS[j])})
         IN SubSeq(text, Len(APPROXIMATORS[i]) + 1, Len(text))
  ELSE text

\* C25: the prepared text is the cost text without its asides in
\* parentheses (what follows a closing parenthesis is kept), without what
\* follows the first " / " and without an approximation prefix at its
\* start, whitespace around it apart.
C25_PreparedText ==
  pc = "prepared" =>
    strip(output.val.v) =
      strip(WithoutApproximation(strip(WithoutAlternate(strip(WithoutAsides(input))))))

(***************************************************************************)
(* Properties of the renovations parser (SpecRenovations)                  *)
(***************************************************************************)
\* the entries of a renovations text: the text without one "." at its end
\* and without its asides, split at its commas
EntriesOf(text) == split(clean_parenthesized(removesuffix(text, <<".">>)), <<",">>)

\* the entry parses: the duration parser returns a date or a Duration
Parses(entry) ==
  /\ _parse_duration(strip(entry)).exc = "none"
  /\ _parse_duration(strip(entry)).val # None

\* C26: the renovations parser returns, in the order of the text, the dates
\* and Durations of exactly the entries that parse, an entry that fails
\* being left out with no effect on the others, and None when no entry
\* parses.
C26_EntriesThatParse ==
  pc = "renovations" =>
    LET kept == SelectSeq(EntriesOf(input), Parses)
    IN output = Returned(TupleOrNone(SeqOf([i \in 1..Len(kept) |->
                                              _parse_duration(strip(kept[i])).val], Len(kept))))

(***************************************************************************)
(* Properties of the parse of a compound cost (SpecCompound)               *)
(***************************************************************************)
\* every token of every compound parse under way is shorter than the text
\* of the parser that split it
TokensAreShorter ==
  \A k \in 1..Len(frames) :
    \A j \in 1..Len(frames[k].tokens) : Len(frames[k].tokens[j]) < Len(frames[k].text)

\* the depth of the recursion and the number of recursive parses are not
\* more than the length of the cost text
BoundedByLength ==
  /\ Len(frames) <= Len(input)
  /\ calls <= Len(input)

\* the parse under way can make a step: the parse has not begun, or the
\* innermost compound parse has a token left or returns
NotStuck ==
  \/ pc = "cost"
  \/ pc = "parsed"
  \/ /\ pc = "compound"
     /\ frames # << >>
     /\ frames[Len(frames)].i <= Len(frames[Len(frames)].tokens)

\* what is left of the parse: the recursive parses that the length of the
\* text still allows, twice, the compound parses to return from and the
\* start
Measure ==
  2 * (Len(input) - calls) + Len(frames) + (IF pc = "cost" THEN 2 ELSE 0)

\* C27: the parse of a compound cost terminates: every recursive parse is
\* on a token shorter than the text of its caller, the depth of the
\* recursion and the number of recursive parses are bounded by the length
\* of the text, and every step of the parse, which is never stuck before
\* its end, brings it nearer to its end.
C27_CompoundParseTerminates ==
  /\ [](TokensAreShorter /\ BoundedByLength /\ NotStuck)
  /\ [][Measure' < Measure]_vars

\* the parse of three segments, a compound one among them, has ended after
\* four recursive parses with their sum
C27_Witness ==
  /\ pc = "parsed"
  /\ Contains(input, COMPOUND_SEPARATORS[1])
  /\ Contains(input, COMPOUND_SEPARATORS[2])
  /\ calls = 4
  /\ frames = << >>
  /\ output.exc = "none"
  /\ output.val # None

(***************************************************************************)
(* Properties of the fields given twice (SpecFields)                       *)
(***************************************************************************)
\* the fields of scrape() that hold one parsed value
MainFields ==
  DOMAIN InitialFields \ {"sub_capacities", "record_attendance_details", "inauguration_details"}

\* the name of the field in the Stadium
RecordName(field) ==
  IF field = "illumination" THEN "floodlights_lux"
  ELSE IF field = "track_length" THEN "track_length_metres"
  ELSE field

\* the row alone gives the field a value
Produces(row, field) ==
  /\ ScrapeRow(scraper, InitialFields, row).exc = "none"
  /\ ScrapeRow(scraper, InitialFields, row).f[field] # None

\* C28: a field for which some row of the page produced a value is not None
\* in the Stadium that scrape() returns: no later row of the field that
\* fails to parse resets it.
C28_ParsedFieldsStay ==
  pc = "wrapper" =>
    \A field \in MainFields :
      (\E i \in 1..Len(seen) : Produces(seen[i], field)) => result[RecordName(field)] # None

\* C29: in the Stadium that scrape() returns, the details of the record
\* attendance are there only with a record attendance that is an integer,
\* and the details of the inauguration only with an inauguration that is a
\* date.
C29_DetailsWithMainField ==
  pc = "wrapper" =>
    /\ result.record_attendance_details # None => result.record_attendance.t = "int"
    /\ result.inauguration_details # None => result.inauguration.t = "date"

\* the tokens are an amount in digit groups, from the token `first` on,
\* followed by the qualifier word q, with a currency before or after them
IsGroupedAmount(tokens, first, q) ==
  /\ first < q
  /\ \A i \in first..(q - 1) : IsInteger(tokens[i])
  /\ \/ first = 1 /\ q = Len(tokens) - 1
     \/ first = 2 /\ q = Len(tokens)
  /\ LET currency == IF first = 1 THEN tokens[Len(tokens)] ELSE tokens[1]
     IN NoDigit(currency) /\ ~IsQualifier(currency)

\* C30: a Cost returned for a text in which a qualifier word is a token has
\* a currency that is no qualifier word, and, when the text is an amount in
\* digit groups with one qualifier word and a currency, the amount of the
\* groups put together times the multiplier of the qualifier, in the branch
\* of more than three tokens too.
C30_QualifierMultiplies ==
  (pc = "parsed" /\ output.exc = "none" /\ output.val # None /\ QualifiersAt(split_ws(input)) # {}) =>
    LET tokens == split_ws(input)
    IN /\ output.val.currency # None => ~IsQualifier(output.val.currency.v)
       /\ \A q \in QualifiersAt(tokens) : \A first \in 1..2 :
            (QualifiersAt(tokens) = {q} /\ IsGroupedAmount(tokens, first, q)) =>
              output.val.amount =
                TimesPow10(join(SubSeq(tokens, first, q - 1)), QualifierExp(tokens[q]))

=============================================================================
